---- MODULE Spec2Model ----
(***************************************************************************)
(* A model of drone-gemini-plugin: the configuration checks (config.go),   *)
(* the pricing model (pricing.go), the context assembler (client.go,       *)
(* buildContext), the repository introspector (git.go) and the run         *)
(* (plugin.go, Exec; client.go, GenerateContent and getAccessToken).       *)
(*                                                                         *)
(* Text whose characters the code inspects (model identifiers, file and    *)
(* directory names) is a sequence of one-character strings, so that        *)
(* strings.Contains, strings.ToLower, strings.HasPrefix and filepath.Ext   *)
(* are computed and not assumed.  Text the code only compares with ""      *)
(* (the prompt and the credentials) is a plain string.                     *)
(***************************************************************************)
EXTENDS Integers, Sequences, FiniteSets, TLC

VARIABLES
    cfg,           \* the Config record of the run
    authMode,      \* result of the last Config.DetectAuthMode call, or Unset
    validateErr,   \* result of the last Config.Validate call, or Unset
    model,         \* the model identifier handed to NewCostCalculator
    calc,          \* the CostCalculator built by NewCostCalculator, or NoCalc
    tokens,        \* arguments of the last CalculateCost call, or NoTokens
    stats,         \* the UsageStats of the last CalculateCost call, or NoStats
    fsys,          \* the file system below the target path
    pc,            \* position of buildContext: start, walk, emit, done
    changedFiles,  \* buildContext's map of changed files (nil or a set of paths)
    todo,          \* filepath.Walk: the paths still to be walked, next first
    visited,       \* the paths the walk function has been called with, in order
    priorityFiles, \* buildContext's priorityFiles
    otherFiles,    \* buildContext's otherFiles
    idx,           \* emission loop: index into allFiles of the next file
    fileCount,     \* buildContext's fileCount
    totalSize,     \* buildContext's totalSize
    context,       \* buildContext's context builder: the pieces written so far
    rpc,           \* position of the run: Exec, GenerateContent, getAccessToken
    promptBuilder, \* buildFullPrompt's promptBuilder, then the full prompt
    estimatedTokens, \* GenerateContent's estimatedTokens, or NoEstimate
    apiURL,        \* GenerateContent's apiURL, or NoURL
    authHeader,    \* GenerateContent's authHeader ("" when none is set)
    calls,         \* the outbound HTTP calls issued so far, in order
    tokenAnswer,   \* what came back from the token exchange, or NoTokenAnswer
    apiAnswer,     \* what came back from the generation call, or NoAPIAnswer
    result,        \* what the run has returned, or NoResult
    env,           \* the environment: the value of each commit variable
    repository,    \* the repository at the target: the answers of git
    sha,           \* the result of DetectCommitSHA, or NoSHA
    gitContext     \* the result of BuildGitContext, or NoGitContext

configVars == <<authMode, validateErr>>
pricingVars == <<model, calc, tokens, stats>>
contextVars ==
    <<fsys, pc, changedFiles, todo, visited, priorityFiles, otherFiles, idx,
      fileCount, totalSize, context>>

runVars ==
    <<rpc, promptBuilder, estimatedTokens, apiURL, authHeader, calls, tokenAnswer,
      apiAnswer, result>>

gitVars == <<env, repository, sha, gitContext>>

vars == <<cfg, configVars, pricingVars, contextVars, runVars, gitVars>>

Unset == "unset"

-----------------------------------------------------------------------------
(* Strings as character sequences.                                         *)

UpperChars == <<"A", "B", "C", "D", "E", "F", "G", "H", "I", "J", "K", "L", "M",
                "N", "O", "P", "Q", "R", "S", "T", "U", "V", "W", "X", "Y", "Z">>

LowerChars == <<"a", "b", "c", "d", "e", "f", "g", "h", "i", "j", "k", "l", "m",
                "n", "o", "p", "q", "r", "s", "t", "u", "v", "w", "x", "y", "z">>

\* strings.ToLower on one ASCII character
ToLowerChar(c) ==
    IF \E i \in 1..26 : UpperChars[i] = c
    THEN LowerChars[CHOOSE i \in 1..26 : UpperChars[i] = c]
    ELSE c

\* strings.ToLower
ToLower(s) == [i \in 1..Len(s) |-> ToLowerChar(s[i])]

\* strings.Contains(s, sub)
Contains(s, sub) ==
    \E i \in 0..(Len(s) - Len(sub)) : SubSeq(s, i + 1, i + Len(sub)) = sub

\* strings.HasPrefix(s, prefix)
HasPrefix(s, prefix) ==
    Len(s) >= Len(prefix) /\ SubSeq(s, 1, Len(prefix)) = prefix

-----------------------------------------------------------------------------
(* config.go: Config, AuthMode, DetectAuthMode, Validate; errors.go.       *)

AuthModeNone == "AuthModeNone"
AuthModeAPIKey == "AuthModeAPIKey"
AuthModeVertexAI == "AuthModeVertexAI"

ErrNil == "nil"
ErrPromptRequired == "ErrPromptRequired"
ErrNoCredentials == "ErrNoCredentials"
ErrProjectRequired == "ErrProjectRequired"

\* A bug DetectAuthMode could have: Vertex AI chosen from the credentials alone.
DetectAuthModeCredentialsOnly(c) ==
    IF c.APIKey # "" THEN AuthModeAPIKey
    ELSE IF c.GCPCredentials # "" THEN AuthModeVertexAI
    ELSE AuthModeNone

\* A bug DetectAuthMode could have: the service account goes before the key.
DetectAuthModeVertexFirst(c) ==
    IF c.GCPCredentials # "" /\ c.GCPProject # "" THEN AuthModeVertexAI
    ELSE IF c.APIKey # "" THEN AuthModeAPIKey
    ELSE AuthModeNone

DetectAuthMode(c) ==
    IF c.APIKey # "" THEN AuthModeAPIKey
    ELSE IF c.GCPCredentials # "" /\ c.GCPProject # "" THEN AuthModeVertexAI
    ELSE AuthModeNone

\* A bug Validate could have: the credentials are checked before the prompt.
ValidateCredentialsFirst(c) ==
    IF DetectAuthMode(c) = AuthModeNone THEN ErrNoCredentials
    ELSE IF c.Prompt = "" THEN ErrPromptRequired
    ELSE IF DetectAuthMode(c) = AuthModeVertexAI /\ c.GCPProject = "" THEN ErrProjectRequired
    ELSE ErrNil

\* A bug Validate could have: the check of the auth mode is left out.
ValidateNoCredentialCheck(c) ==
    IF c.Prompt = "" THEN ErrPromptRequired
    ELSE IF c.GCPProject = "" /\ c.APIKey = "" THEN ErrProjectRequired
    ELSE ErrNil

Validate(c) ==
    IF c.Prompt = "" THEN ErrPromptRequired
    ELSE IF DetectAuthMode(c) = AuthModeNone THEN ErrNoCredentials
    ELSE IF DetectAuthMode(c) = AuthModeVertexAI /\ c.GCPProject = "" THEN ErrProjectRequired
    ELSE ErrNil

\* The values a run may be configured with.
Prompts == {"", "Review this code", "describe this"}
APIKeys == {"", "test-api-key", "AIza"}
Credentials == {"", "{\"type\":\"service_account\"}", "not json"}
Projects == {"", "my-project", "other-project"}

\* The Config a run starts from when nothing is set: the defaults of the
\* envconfig tags.
DefaultConfig ==
    [Prompt |-> "", Model |-> <<"g", "e", "m", "i", "n", "i", "-", "2", ".", "5",
                               "-", "p", "r", "o">>,
     APIKey |-> "", GCPCredentials |-> "", GCPProject |-> "",
     GCPLocation |-> "us-central1",
     GitDiff |-> FALSE, GitCommitSHA |-> <<>>, MaxFiles |-> 50,
     MaxContextSize |-> 512000]

Configs ==
    {[DefaultConfig EXCEPT !.Prompt = p, !.APIKey = k, !.GCPCredentials = c,
                           !.GCPProject = j] :
        p \in Prompts, k \in APIKeys, c \in Credentials, j \in Projects}

-----------------------------------------------------------------------------
(* pricing.go: ModelPricing, PricingTable, NewCostCalculator,              *)
(* CalculateCost.                                                          *)
(*                                                                         *)
(* Prices are dollars per million tokens.  Every price of the table is a   *)
(* multiple of $0.025, so a price is kept as its number of $0.025 units    *)
(* and a cost, tokens / 1,000,000 * price, as tokens * units: the exact    *)
(* cost in units of $0.025 / 1,000,000.  The rounding of float64 is not    *)
(* modelled.                                                               *)

\* A price given in thousandths of a dollar (4.00 is 4000, 0.075 is 75).
USD(thousandths) == thousandths \div 25

Gemini == <<"g", "e", "m", "i", "n", "i", "-">>
Pro == <<"-", "p", "r", "o">>
Flash == <<"-", "f", "l", "a", "s", "h">>
Lite == <<"-", "l", "i", "t", "e">>
Preview == <<"-", "p", "r", "e", "v", "i", "e", "w">>
V3 == <<"3">>
V25 == <<"2", ".", "5">>
V20 == <<"2", ".", "0">>
V15 == <<"1", ".", "5">>

\* The pieces of the display names ("Gemini 2.5 Flash-Lite").
GeminiName == <<"G", "e", "m", "i", "n", "i", " ">>
ProName == <<" ", "P", "r", "o">>
FlashName == <<" ", "F", "l", "a", "s", "h">>
LiteName == <<"-", "L", "i", "t", "e">>

Entry(name, inShort, inLong, outShort, outLong, threshold) ==
    [Name |-> name,
     InputPriceShort |-> USD(inShort), InputPriceLong |-> USD(inLong),
     OutputPriceShort |-> USD(outShort), OutputPriceLong |-> USD(outLong),
     LongContextThreshold |-> threshold]

PricingKeys ==
    {Gemini \o V3 \o Pro \o Preview, Gemini \o V3 \o Flash \o Preview,
     Gemini \o V25 \o Pro, Gemini \o V25 \o Flash, Gemini \o V25 \o Flash \o Lite,
     Gemini \o V20 \o Flash, Gemini \o V20 \o Flash \o Lite,
     Gemini \o V15 \o Pro, Gemini \o V15 \o Flash}

PricingTable ==
    [key \in PricingKeys |->
        CASE key = Gemini \o V3 \o Pro \o Preview ->
                Entry(GeminiName \o V3 \o ProName, 4000, 4000, 12000, 12000, 0)
          [] key = Gemini \o V3 \o Flash \o Preview ->
                Entry(GeminiName \o V3 \o FlashName, 500, 500, 3000, 3000, 0)
          [] key = Gemini \o V25 \o Pro ->
                Entry(GeminiName \o V25 \o ProName, 1250, 2500, 10000, 15000, 200000)
          [] key = Gemini \o V25 \o Flash ->
                Entry(GeminiName \o V25 \o FlashName, 300, 300, 2500, 2500, 0)
          [] key = Gemini \o V25 \o Flash \o Lite ->
                Entry(GeminiName \o V25 \o FlashName \o LiteName, 100, 100, 400, 400, 0)
          [] key = Gemini \o V20 \o Flash ->
                Entry(GeminiName \o V20 \o FlashName, 150, 150, 600, 600, 0)
          [] key = Gemini \o V20 \o Flash \o Lite ->
                Entry(GeminiName \o V20 \o FlashName \o LiteName, 75, 75, 300, 300, 0)
          [] key = Gemini \o V15 \o Pro ->
                Entry(GeminiName \o V15 \o ProName, 1250, 1250, 5000, 5000, 0)
          [] key = Gemini \o V15 \o Flash ->
                Entry(GeminiName \o V15 \o FlashName, 75, 75, 300, 300, 0)]

\* The pricing used when the model is not found; its Name is the identifier.
DefaultPricing(m) == Entry(m, 1000, 1000, 5000, 5000, 0)

\* A bug the partial match could have: the arguments of Contains swapped.
PartialMatchSwapped(m, key) == Contains(ToLower(key), ToLower(m))

\* The test of the partial-match loop.
PartialMatch(m, key) == Contains(ToLower(m), ToLower(key))

\* The pricing entries NewCostCalculator may select for m.  An exact key
\* selects its entry.  Otherwise the loop ranges over the map PricingTable and
\* stops at the first key that matches; Go leaves the iteration order of a
\* map unspecified, so every matching key may be the first.
SelectPricing(m) ==
    IF m \in PricingKeys THEN {PricingTable[m]}
    ELSE IF \E key \in PricingKeys : PartialMatch(m, key)
         THEN {PricingTable[key] : key \in {k \in PricingKeys : PartialMatch(m, k)}}
         ELSE {DefaultPricing(m)}

\* The calculators NewCostCalculator(m) may return.
NewCostCalculator(m) == {[model |-> m, pricing |-> p] : p \in SelectPricing(m)}

\* A bug CalculateCost could have: the threshold itself billed as long context.
CalculateCostThresholdInclusive(c, inputTokens, outputTokens, thoughtsTokens) ==
    LET long == c.pricing.LongContextThreshold > 0
                /\ inputTokens >= c.pricing.LongContextThreshold
        inPrice == IF long THEN c.pricing.InputPriceLong ELSE c.pricing.InputPriceShort
        outPrice == IF long THEN c.pricing.OutputPriceLong ELSE c.pricing.OutputPriceShort
    IN  [Model |-> c.pricing.Name,
         InputTokens |-> inputTokens, OutputTokens |-> outputTokens,
         ThoughtsTokens |-> thoughtsTokens,
         TotalTokens |-> inputTokens + outputTokens + thoughtsTokens,
         EstimatedInput |-> 0,
         InputCost |-> inputTokens * inPrice,
         OutputCost |-> outputTokens * outPrice,
         ThoughtsCost |-> thoughtsTokens * outPrice,
         TotalCost |-> inputTokens * inPrice + outputTokens * outPrice
                       + thoughtsTokens * outPrice,
         IsLongContext |-> long]

\* A bug CalculateCost could have: the thinking tokens left out of the totals.
CalculateCostWithoutThoughts(c, inputTokens, outputTokens, thoughtsTokens) ==
    LET long == c.pricing.LongContextThreshold > 0
                /\ inputTokens > c.pricing.LongContextThreshold
        inPrice == IF long THEN c.pricing.InputPriceLong ELSE c.pricing.InputPriceShort
        outPrice == IF long THEN c.pricing.OutputPriceLong ELSE c.pricing.OutputPriceShort
    IN  [Model |-> c.pricing.Name,
         InputTokens |-> inputTokens, OutputTokens |-> outputTokens,
         ThoughtsTokens |-> thoughtsTokens,
         TotalTokens |-> inputTokens + outputTokens,
         EstimatedInput |-> 0,
         InputCost |-> inputTokens * inPrice,
         OutputCost |-> outputTokens * outPrice,
         ThoughtsCost |-> thoughtsTokens * outPrice,
         TotalCost |-> inputTokens * inPrice + outputTokens * outPrice,
         IsLongContext |-> long]

CalculateCost(c, inputTokens, outputTokens, thoughtsTokens) ==
    LET long == c.pricing.LongContextThreshold > 0
                /\ inputTokens > c.pricing.LongContextThreshold
        inPrice == IF long THEN c.pricing.InputPriceLong ELSE c.pricing.InputPriceShort
        outPrice == IF long THEN c.pricing.OutputPriceLong ELSE c.pricing.OutputPriceShort
        inputCost == inputTokens * inPrice
        outputCost == outputTokens * outPrice
        thoughtsCost == thoughtsTokens * outPrice
    IN  [Model |-> c.pricing.Name,
         InputTokens |-> inputTokens, OutputTokens |-> outputTokens,
         ThoughtsTokens |-> thoughtsTokens,
         TotalTokens |-> inputTokens + outputTokens + thoughtsTokens,
         EstimatedInput |-> 0,
         InputCost |-> inputCost,
         OutputCost |-> outputCost,
         ThoughtsCost |-> thoughtsCost,
         TotalCost |-> inputCost + outputCost + thoughtsCost,
         IsLongContext |-> long]

\* The model identifiers and token counts the pricing model is tried on.
ModelIds ==
    {Gemini \o V25 \o Pro,
     Gemini \o V25 \o Flash,
     Gemini \o V25 \o Flash \o Lite,
     Gemini \o V3 \o Pro \o Preview,
     <<"G", "e", "m", "i", "n", "i", "-">> \o V25 \o <<"-", "P", "r", "o">>,
     <<"m", "o", "d", "e", "l", "s", "/">> \o Gemini \o V25 \o Pro,
     Gemini \o V25 \o Flash \o Lite \o Preview,
     Gemini \o V20 \o Flash \o Lite \o <<"-", "0", "0", "1">>,
     Gemini \o V25,
     <<"g", "p", "t", "-", "4">>,
     <<>>}

InputTokenCounts == {0, 1000, 200000, 200001}
OutputTokenCounts == {0, 100}
ThoughtsTokenCounts == {0, 500}

\* No calculator and no statistics yet: records no call returns (a threshold and
\* a total below zero).
NoCalc == [model |-> <<>>, pricing |-> Entry(<<>>, 0, 0, 0, 0, -1)]
NoTokens == <<>>
NoStats == CalculateCost(NoCalc, -1, 0, 0)

-----------------------------------------------------------------------------
(* client.go, buildContext: the file system below the target path.         *)
(*                                                                         *)
(* A path is the sequence of its components below the target directory     *)
(* (the target itself is the empty sequence); a component is the index of  *)
(* its name in Pool.  filepath.Walk reads a directory in lexical order of  *)
(* the names, which is the order of Pool.  The content of a file is kept   *)
(* as its length in bytes.                                                 *)

\* os.ReadFile returned an error.
ReadFails == -1

Dir(name) ==
    [name |-> name, kind |-> "dir", size |-> 0, content |-> ReadFails,
     listErr |-> FALSE]

\* A directory that cannot be listed: readDirNames fails on it.
UnreadableDir(name) ==
    [name |-> name, kind |-> "dir", size |-> 0, content |-> ReadFails,
     listErr |-> TRUE]

File(name, size) ==
    [name |-> name, kind |-> "file", size |-> size, content |-> size,
     listErr |-> FALSE]

\* A file Lstat describes and os.ReadFile cannot read.
UnreadableFile(name, size) ==
    [name |-> name, kind |-> "file", size |-> size, content |-> ReadFails,
     listErr |-> FALSE]

\* A symbolic link to a regular file.  filepath.Walk does not follow links:
\* the FileInfo it hands over is Lstat's, whose Size is the length of the link
\* itself; os.ReadFile follows the link and returns the target's content.
Symlink(name, linkSize, targetSize) ==
    [name |-> name, kind |-> "symlink", size |-> linkSize, content |-> targetSize,
     listErr |-> FALSE]

\* The entries a directory may hold, in lexical (byte) order of their names:
\* .github  .x.go  Dockerfile  M.GO  bad.go  big.go  edge.go  link.go  lock
\* n.txt  src  vendor
Pool ==
    <<Dir(<<".", "g", "i", "t", "h", "u", "b">>),
      File(<<".", "x", ".", "g", "o">>, 1),
      File(<<"D", "o", "c", "k", "e", "r", "f", "i", "l", "e">>, 2),
      File(<<"M", ".", "G", "O">>, 1),
      UnreadableFile(<<"b", "a", "d", ".", "g", "o">>, 1),
      File(<<"b", "i", "g", ".", "g", "o">>, 100 * 1024 + 1),
      File(<<"e", "d", "g", "e", ".", "g", "o">>, 100 * 1024),
      Symlink(<<"l", "i", "n", "k", ".", "g", "o">>, 7, 100 * 1024 + 1),
      UnreadableDir(<<"l", "o", "c", "k">>),
      File(<<"n", ".", "t", "x", "t">>, 1),
      Dir(<<"s", "r", "c">>),
      Dir(<<"v", "e", "n", "d", "o", "r">>)>>

\* Bound of the trees: the number of entries below the target.
MaxNodes == 2

Root == <<>>
Info(path) == Pool[path[Len(path)]]
BaseName(path) == Info(path).name
IsDir(path) == path = Root \/ Info(path).kind = "dir"

\* The paths that may be added to the tree t: a new entry of the target or of
\* a directory of t that can be listed.
Addable(t) ==
    {d \o <<i>> : d \in {e \in t \cup {Root} : IsDir(e)
                                              /\ (e # Root => ~Info(e).listErr)},
                  i \in 1..Len(Pool)} \ t

RECURSIVE Trees(_)
Trees(n) ==
    IF n = 0 THEN {{}}
    ELSE LET smaller == Trees(n - 1)
         IN  smaller \cup UNION {{t \cup {q} : q \in Addable(t)} : t \in smaller}

\* The file systems: the target missing (Lstat fails on it), or a directory
\* holding a tree of at most MaxNodes entries.
FileSystems ==
    {[exists |-> FALSE, entries |-> {}]}
        \cup {[exists |-> TRUE, entries |-> t] : t \in Trees(MaxNodes)}

RECURSIVE Ascending(_)
Ascending(S) ==
    IF S = {} THEN <<>>
    ELSE LET least == CHOOSE x \in S : \A y \in S : x <= y
         IN  <<least>> \o Ascending(S \ {least})

\* readDirNames: the sorted names of a directory, or an error.
ReadDirNames(fs, path) ==
    IF path # Root /\ Info(path).listErr
    THEN [names |-> <<>>, err |-> TRUE]
    ELSE [names |-> Ascending({i \in 1..Len(Pool) : path \o <<i>> \in fs.entries}),
          err |-> FALSE]

\* os.ReadFile: the length of the content, or ReadFails.
ReadFile(path) == Info(path).content

-----------------------------------------------------------------------------
(* client.go, buildContext: the exclusion rules and the walk function.     *)

excludeDirs ==
    {<<"c", "o", "n", "t", "e", "x", "t">>,
     <<"v", "e", "n", "d", "o", "r">>,
     <<"n", "o", "d", "e", "_", "m", "o", "d", "u", "l", "e", "s">>,
     <<"d", "i", "s", "t">>,
     <<"b", "u", "i", "l", "d">>,
     <<"t", "a", "r", "g", "e", "t">>,
     <<"_", "_", "p", "y", "c", "a", "c", "h", "e", "_", "_">>,
     <<".", "g", "i", "t">>,
     <<".", "i", "d", "e", "a">>,
     <<".", "v", "s", "c", "o", "d", "e">>}

extensions ==
    {<<".", "g", "o">>, <<".", "p", "y">>, <<".", "j", "s">>, <<".", "t", "s">>,
     <<".", "j", "a", "v", "a">>, <<".", "c">>, <<".", "c", "p", "p">>, <<".", "h">>,
     <<".", "m", "d">>, <<".", "y", "a", "m", "l">>, <<".", "y", "m", "l">>,
     <<".", "j", "s", "o", "n">>,
     <<".", "s", "h">>, <<".", "b", "a", "s", "h">>,
     <<".", "d", "o", "c", "k", "e", "r", "f", "i", "l", "e">>,
     <<".", "h", "t", "m", "l">>, <<".", "c", "s", "s">>, <<".", "s", "q", "l">>,
     <<".", "j", "s", "x">>, <<".", "t", "s", "x">>, <<".", "v", "u", "e">>,
     <<".", "r", "b">>, <<".", "p", "h", "p">>, <<".", "r", "s">>}

Dot == <<".">>
DockerfileName == <<"D", "o", "c", "k", "e", "r", "f", "i", "l", "e">>

\* filepath.Ext: the suffix from the last dot of the name, empty without a dot.
Ext(name) ==
    IF \E i \in 1..Len(name) : name[i] = "."
    THEN LET last == CHOOSE i \in 1..Len(name) :
                        /\ name[i] = "."
                        /\ \A j \in (i + 1)..Len(name) : name[j] # "."
         IN  SubSeq(name, last, Len(name))
    ELSE <<>>

\* No map of changed files (nil), and the map holding the paths of a set.
NilMap == [isNil |-> TRUE, keys |-> {}]
MapOf(paths) == [isNil |-> FALSE, keys |-> paths]

\* What the walk function answers: what it returns to filepath.Walk, and the
\* list it appends the path to.
Answer(ret, add) == [ret |-> ret, add |-> add]

\* A bug the walk function could have: with a map of changed files, the
\* files that are not in it are left out.
WalkFnChangedOnly(path, err, changed) ==
    IF err THEN Answer("nil", "none")
    ELSE IF IsDir(path) THEN
        IF path = Root THEN Answer("nil", "none")
        ELSE IF HasPrefix(BaseName(path), Dot) THEN Answer("SkipDir", "none")
        ELSE IF BaseName(path) \in excludeDirs THEN Answer("SkipDir", "none")
        ELSE Answer("nil", "none")
    ELSE IF HasPrefix(BaseName(path), Dot) THEN Answer("nil", "none")
    ELSE IF Ext(ToLower(BaseName(path))) \notin extensions
            /\ BaseName(path) # DockerfileName THEN Answer("nil", "none")
    ELSE IF Info(path).size > 100 * 1024 THEN Answer("nil", "none")
    ELSE IF ~changed.isNil /\ path \in changed.keys THEN Answer("nil", "priority")
    ELSE IF ~changed.isNil THEN Answer("nil", "none")
    ELSE Answer("nil", "other")

\* The function buildContext hands to filepath.Walk, called with a path, the
\* error of reaching it, and the map of changed files.
WalkFn(path, err, changed) ==
    IF err THEN Answer("nil", "none")
    ELSE IF IsDir(path) THEN
        IF path = Root THEN Answer("nil", "none")
        ELSE IF HasPrefix(BaseName(path), Dot) THEN Answer("SkipDir", "none")
        ELSE IF BaseName(path) \in excludeDirs THEN Answer("SkipDir", "none")
        ELSE Answer("nil", "none")
    ELSE IF HasPrefix(BaseName(path), Dot) THEN Answer("nil", "none")
    ELSE IF Ext(ToLower(BaseName(path))) \notin extensions
            /\ BaseName(path) # DockerfileName THEN Answer("nil", "none")
    ELSE IF Info(path).size > 100 * 1024 THEN Answer("nil", "none")
    ELSE IF ~changed.isNil /\ path \in changed.keys THEN Answer("nil", "priority")
    ELSE Answer("nil", "other")

-----------------------------------------------------------------------------
(* client.go, buildContext: the changed files and the emission loop.       *)

\* The component that names the target directory inside its repository, when
\* the target is not the root of the repository.
TargetInRepo == 0

\* Bound of a commit: the number of files it changes.
MaxChanged == 1

\* The regular files and links of a file system.
FilesOf(fs) == {e \in fs.entries : ~IsDir(e)}

\* What git diff-tree --name-only may report: paths relative to the root of
\* the repository, which is the target or the directory above it.
ChangedFileLists(fs) ==
    UNION {{c \in SUBSET {prefix \o f : f \in FilesOf(fs)} : Cardinality(c) <= MaxChanged} :
              prefix \in {<<>>, <<TargetInRepo>>}}

\* The maps of changed files lines 356-371 may build: nil when GitDiff is off,
\* the target is no repository or GetChangedFiles fails, else the reported
\* paths.
ChangedFileMaps(c, fs) ==
    IF c.GitDiff
    THEN {NilMap} \cup {MapOf(l) : l \in ChangedFileLists(fs)}
    ELSE {NilMap}

\* allFiles := append(priorityFiles, otherFiles...)
AllFiles == priorityFiles \o otherFiles

FileItem(path, size) == [kind |-> "file", path |-> path, size |-> size]
MarkerItem(limit) == [kind |-> "marker", path |-> Root, size |-> limit]

\* A bug the count check could have: one file too many.
FileLimitReachedLate(c, count) == c.MaxFiles > 0 /\ count > c.MaxFiles

\* The check of the file count limit.
FileLimitReached(c, count) == c.MaxFiles > 0 /\ count >= c.MaxFiles

\* A bug the size check could have: a file that fills the budget exactly is
\* refused.
SizeLimitReachedInclusive(c, total, length) ==
    c.MaxContextSize > 0 /\ total + length >= c.MaxContextSize

\* The check of the context size limit.
SizeLimitReached(c, total, length) ==
    c.MaxContextSize > 0 /\ total + length > c.MaxContextSize

\* filepath.Rel(targetDir, path): the names below the target joined by "/";
\* its length in bytes.
RECURSIVE RelPathLen(_)
RelPathLen(path) ==
    IF path = Root THEN 0
    ELSE IF Len(path) = 1 THEN Len(BaseName(path))
    ELSE RelPathLen(SubSeq(path, 1, Len(path) - 1)) + 1 + Len(BaseName(path))

\* The number of bytes %d prints a count with.
RECURSIVE Digits(_)
Digits(n) == IF n < 10 THEN 1 ELSE 1 + Digits(n \div 10)

\* The bytes one piece adds to the context: "\n--- File: %s ---\n", the
\* content and "\n" for a file; the sentence of the limit for a marker.
ItemBytes(c, item) ==
    IF item.kind = "file" THEN 11 + RelPathLen(item.path) + 5 + item.size + 1
    ELSE IF item = MarkerItem("files") THEN 55 + Digits(c.MaxFiles)
    ELSE 57 + Digits(c.MaxContextSize)

\* len(context.String()): the size of the context in bytes.
RECURSIVE ContextBytes(_, _)
ContextBytes(c, items) ==
    IF items = <<>> THEN 0
    ELSE ItemBytes(c, Head(items)) + ContextBytes(c, Tail(items))

-----------------------------------------------------------------------------
(* client.go, GenerateContent: texts, errors, URLs and HTTP answers.       *)
(*                                                                         *)
(* A text the code only measures and passes on is the sequence of the      *)
(* pieces it was written from; a piece carries its number of characters    *)
(* and of bytes (len of a Go string counts bytes).  An empty piece adds    *)
(* nothing.                                                                *)

Str(s, chars, bytes) ==
    IF bytes = 0 THEN <<>> ELSE <<[s |-> s, chars |-> chars, bytes |-> bytes]>>

\* A text of one-byte characters.
Ascii(s) == Str(s, Len(s), Len(s))

\* len(text)
RECURSIVE ByteLen(_)
ByteLen(text) ==
    IF text = <<>> THEN 0 ELSE Head(text).bytes + ByteLen(Tail(text))

\* pricing.go, EstimateTokens: a third of the length in bytes, rounded down.
EstimateTokens(text) == ByteLen(text) \div 3

NoEstimate == -1

\* An error: the messages of the wrapped errors, outermost first, and for a
\* refused API call its status and the raw body.
NoBody == ""
Failure(msgs) == [msgs |-> msgs, status |-> 0, body |-> NoBody]
StatusFailure(status, body) ==
    [msgs |-> <<"API returned status">>, status |-> status, body |-> body]
NilError == Failure(<<>>)

\* What GenerateContent and Exec return: (text, usage stats, error); Exec
\* returns the error only.
Returned(text, usage, err) == [text |-> text, stats |-> usage, err |-> err]
Failed(err) == Returned(<<>>, NoStats, err)
NoResult == Failed(Failure(<<Unset>>))

\* A URL as fmt.Sprintf puts it together: the pieces of the host, of the
\* path and of the query string.
URL(host, path, query) == [host |-> host, path |-> path, query |-> query]
NoURL == URL(<<>>, <<>>, <<>>)

GlobalHost == "generativelanguage.googleapis.com"

\* Lines 130-134: the endpoint of Google AI Studio, the key in the query.
APIKeyURL(c) ==
    URL(<<GlobalHost>>, <<"/v1beta/models/", c.Model, ":generateContent">>,
        <<"key=", c.APIKey>>)

\* A bug the endpoint choice could have: the region-qualified endpoint for
\* every location.
VertexURLAlwaysRegional(c) ==
    URL(<<c.GCPLocation, "-aiplatform.googleapis.com">>,
        <<"/v1/projects/", c.GCPProject, "/locations/", c.GCPLocation,
          "/publishers/google/models/", c.Model, ":generateContent">>,
        <<>>)

\* A bug the endpoint choice could have: the key parameter of the API-key
\* mode is kept in the URL.
VertexURLWithKey(c) ==
    IF c.GCPLocation = "global"
    THEN URL(<<GlobalHost>>, <<"/v1beta/models/", c.Model, ":generateContent">>,
             <<"key=", c.APIKey>>)
    ELSE URL(<<c.GCPLocation, "-aiplatform.googleapis.com">>,
             <<"/v1/projects/", c.GCPProject, "/locations/", c.GCPLocation,
               "/publishers/google/models/", c.Model, ":generateContent">>,
             <<"key=", c.APIKey>>)

\* Lines 148-169: the endpoint of Vertex AI, global or of a region.
VertexURL(c) ==
    IF c.GCPLocation = "global"
    THEN URL(<<GlobalHost>>, <<"/v1beta/models/", c.Model, ":generateContent">>,
             <<>>)
    ELSE URL(<<c.GCPLocation, "-aiplatform.googleapis.com">>,
             <<"/v1/projects/", c.GCPProject, "/locations/", c.GCPLocation,
               "/publishers/google/models/", c.Model, ":generateContent">>,
             <<>>)

\* An outbound HTTP call: the token exchange or the generation request.
Call(kind, url, authorization) ==
    [kind |-> kind, method |-> "POST", url |-> url,
     authorization |-> authorization, answered |-> FALSE]

-----------------------------------------------------------------------------
(* client.go, getAccessToken and signJWT.                                  *)
(*                                                                         *)
(* The credentials are told apart by what json.Unmarshal, pem.Decode,      *)
(* x509.ParsePKCS8PrivateKey and rsa.SignPKCS1v15 make of them.            *)

CredsNotJSON == "not json"
CredsNoKey == "{\"type\":\"service_account\"}"
CredsKeyNotPKCS8 == "{\"private_key\":\"PEM block, no PKCS8 inside\"}"
CredsKeyNotRSA == "{\"private_key\":\"PEM block, PKCS8 EC key\"}"
CredsKeyTooShort == "{\"private_key\":\"PEM block, PKCS8 RSA key of 256 bits\"}"
CredsNoTokenURI == "{\"private_key\":\"PEM block, PKCS8 RSA key\"}"
CredsValid == "{\"private_key\":\"PEM block, PKCS8 RSA key\",\"token_uri\":\"...\"}"

KeyNone == ""
KeyNotPKCS8 == "PEM block, no PKCS8 inside"
KeyNotRSA == "PEM block, PKCS8 EC key"
KeyTooShort == "PEM block, PKCS8 RSA key of 256 bits"
KeyRSA == "PEM block, PKCS8 RSA key"

TokenURI == "https://oauth2.googleapis.com/token"

ServiceAccountCredentials(key, uri) ==
    [err |-> FALSE, PrivateKey |-> key, TokenURI |-> uri]

\* Line 524: json.Unmarshal of the credentials.
ParseCredentials(s) ==
    CASE s = CredsNoKey       -> ServiceAccountCredentials(KeyNone, TokenURI)
      [] s = CredsKeyNotPKCS8 -> ServiceAccountCredentials(KeyNotPKCS8, TokenURI)
      [] s = CredsKeyNotRSA   -> ServiceAccountCredentials(KeyNotRSA, TokenURI)
      [] s = CredsKeyTooShort -> ServiceAccountCredentials(KeyTooShort, TokenURI)
      [] s = CredsNoTokenURI  -> ServiceAccountCredentials(KeyRSA, "")
      [] s = CredsValid       -> ServiceAccountCredentials(KeyRSA, TokenURI)
      [] OTHER                -> [err |-> TRUE, PrivateKey |-> KeyNone,
                                  TokenURI |-> ""]

\* signJWT: the error it returns, NilError when the token is signed.
signJWT(privateKeyPEM) ==
    CASE privateKeyPEM = KeyNone     -> Failure(<<"failed to decode private key PEM">>)
      [] privateKeyPEM = KeyNotPKCS8 -> Failure(<<"failed to parse private key">>)
      [] privateKeyPEM = KeyNotRSA   -> Failure(<<"private key is not RSA">>)
      [] privateKeyPEM = KeyTooShort -> Failure(<<"failed to sign JWT">>)
      [] OTHER                       -> NilError

\* fmt.Errorf("...: %w", err)
Wrap(msg, err) == [err EXCEPT !.msgs = <<msg>> \o @]

\* A bug getAccessToken could have: the error of signJWT is dropped.
BeforeTokenExchangeUnsigned(c) ==
    LET creds == ParseCredentials(c.GCPCredentials)
    IN  IF creds.err
        THEN Failure(<<"failed to parse service account credentials">>)
        ELSE IF creds.TokenURI = ""
        THEN Failure(<<"failed to exchange JWT for access token">>)
        ELSE NilError

\* Lines 522-552, up to the sending of the token request: the error
\* getAccessToken returns without a request having gone out, or NilError.
\* http.PostForm refuses a URL without scheme before it connects.
BeforeTokenExchange(c) ==
    LET creds == ParseCredentials(c.GCPCredentials)
    IN  IF creds.err
        THEN Failure(<<"failed to parse service account credentials">>)
        ELSE IF signJWT(creds.PrivateKey) # NilError
        THEN Wrap("failed to create JWT", signJWT(creds.PrivateKey))
        ELSE IF creds.TokenURI = ""
        THEN Failure(<<"failed to exchange JWT for access token">>)
        ELSE NilError

\* What comes back from an HTTP call: an error of the transport or of
\* reading the body, or a status and a body.
HTTPAnswer(err, status, body) == [err |-> err, status |-> status, body |-> body]

TokenBody(raw, parses, token) ==
    [raw |-> raw, parses |-> parses, access_token |-> token]

TokenBodies ==
    {TokenBody("<html>", FALSE, ""),
     TokenBody("{\"access_token\":\"ya29.t\"}", TRUE, "ya29.t"),
     TokenBody("{}", TRUE, "")}

\* The statuses an endpoint may answer with: success, another 2xx, refusals.
Statuses == {200, 201, 400, 503}

TokenAnswers ==
    {HTTPAnswer(e, 0, TokenBody("", FALSE, "")) : e \in {"transport", "read"}}
        \cup {HTTPAnswer("", st, b) : st \in Statuses, b \in TokenBodies}

NoTokenAnswer == HTTPAnswer("none", 0, TokenBody("", FALSE, ""))

\* Lines 550-569: what getAccessToken makes of the answer.
TokenOutcome(a) ==
    IF a.err = "transport"
    THEN [token |-> "", err |-> Failure(<<"failed to exchange JWT for access token">>)]
    ELSE IF a.err = "read"
    THEN [token |-> "", err |-> Failure(<<"failed to read token response">>)]
    ELSE IF a.status # 200
    THEN [token |-> "", err |-> Failure(<<"token exchange failed", a.body.raw>>)]
    ELSE IF ~a.body.parses
    THEN [token |-> "", err |-> Failure(<<"failed to parse token response">>)]
    ELSE [token |-> a.body.access_token, err |-> NilError]

-----------------------------------------------------------------------------
(* client.go, GenerateContent: the answer of the API (lines 198-253).      *)

NoAPIError == [present |-> FALSE, message |-> ""]
APIError(message) == [present |-> TRUE, message |-> message]

NoUsageMetadata ==
    [present |-> FALSE, PromptTokenCount |-> 0, CandidatesTokenCount |-> 0,
     ThoughtsTokenCount |-> 0]
UsageMetadata(prompt, candidates, thoughts) ==
    [present |-> TRUE, PromptTokenCount |-> prompt,
     CandidatesTokenCount |-> candidates, ThoughtsTokenCount |-> thoughts]

\* A body: whether json.Unmarshal accepts it, and the fields it sets.  A
\* candidate is the sequence of the texts of its parts.
APIBody(raw, parses, error, candidates, usage) ==
    [raw |-> raw, parses |-> parses, error |-> error, candidates |-> candidates,
     usageMetadata |-> usage]

TwoCandidates ==
    <<<<Ascii("Looks "), <<>>, Ascii("good")>>, <<Ascii(" to me.")>>>>

APIBodies ==
    {APIBody("<html>", FALSE, NoAPIError, <<>>, NoUsageMetadata),
     APIBody("{}", TRUE, NoAPIError, <<>>, NoUsageMetadata),
     APIBody("{error}", TRUE, APIError("quota exceeded"), <<>>, NoUsageMetadata),
     APIBody("{error, candidates}", TRUE, APIError(""), TwoCandidates,
             UsageMetadata(1000, 100, 0)),
     APIBody("{candidates}", TRUE, NoAPIError, TwoCandidates, NoUsageMetadata),
     APIBody("{candidates, usageMetadata}", TRUE, NoAPIError, TwoCandidates,
             UsageMetadata(200001, 100, 500))}

APIAnswers ==
    {HTTPAnswer(e, 0, APIBody("", FALSE, NoAPIError, <<>>, NoUsageMetadata)) :
        e \in {"transport", "read"}}
        \cup {HTTPAnswer("", st, b) : st \in Statuses, b \in APIBodies}

NoAPIAnswer ==
    HTTPAnswer("none", 0, APIBody("", FALSE, NoAPIError, <<>>, NoUsageMetadata))

\* Lines 229-236: the texts of the parts of all candidates, one after the
\* other.
RECURSIVE JoinParts(_)
JoinParts(parts) ==
    IF parts = <<>> THEN <<>> ELSE Head(parts) \o JoinParts(Tail(parts))

RECURSIVE ExtractText(_)
ExtractText(candidates) ==
    IF candidates = <<>> THEN <<>>
    ELSE JoinParts(Head(candidates)) \o ExtractText(Tail(candidates))

\* A bug the usage statistics could have: the estimate is recorded in the
\* fallback only.
UsageStatsEstimateInFallbackOnly(c, usage, estimated, text) ==
    IF usage.present
    THEN CalculateCost(c, usage.PromptTokenCount, usage.CandidatesTokenCount,
                       usage.ThoughtsTokenCount)
    ELSE [CalculateCost(c, estimated, EstimateTokens(text), 0)
             EXCEPT !.EstimatedInput = estimated]

\* Lines 239-251: the usage statistics of a successful call.
UsageStatsOf(c, usage, estimated, text) ==
    IF usage.present
    THEN [CalculateCost(c, usage.PromptTokenCount, usage.CandidatesTokenCount,
                        usage.ThoughtsTokenCount)
             EXCEPT !.EstimatedInput = estimated]
    ELSE [CalculateCost(c, estimated, EstimateTokens(text), 0)
             EXCEPT !.EstimatedInput = estimated]

\* Lines 198-253: what GenerateContent returns for an answer of the API.
ResponseOutcome(c, estimated, a) ==
    IF a.err = "transport" THEN Failed(Failure(<<"API request failed">>))
    ELSE IF a.err = "read" THEN Failed(Failure(<<"failed to read response">>))
    ELSE IF a.status # 200 THEN Failed(StatusFailure(a.status, a.body.raw))
    ELSE IF ~a.body.parses THEN Failed(Failure(<<"failed to parse response">>))
    ELSE IF a.body.error.present
    THEN Failed(Failure(<<"API error", a.body.error.message>>))
    ELSE Returned(ExtractText(a.body.candidates),
                  UsageStatsOf(c, a.body.usageMetadata, estimated,
                               ExtractText(a.body.candidates)),
                  NilError)

-----------------------------------------------------------------------------
(* git.go: the environment and the repository at the target, as            *)
(* GitAnalyzer sees them.                                                  *)
(*                                                                         *)
(* A commit identifier is a sequence of characters.  What a git command    *)
(* prints is kept as far as the code looks at it: the characters of        *)
(* rev-parse HEAD, the lines of log and of diff-tree, the pieces (with     *)
(* their length in bytes) of the diff and of its summary.                  *)

\* droneEnvVars, in the order DetectCommitSHA looks them up.
droneEnvVars ==
    <<"DRONE_COMMIT_SHA", "DRONE_COMMIT", "CI_COMMIT_SHA", "GITHUB_SHA",
      "GITLAB_CI_COMMIT_SHA">>

EnvNames == {droneEnvVars[i] : i \in 1..Len(droneEnvVars)}

\* The commit identifier a variable holds when it is set: one for each
\* variable, so that the variable a result was taken from can be told.
EnvValue(name) == <<"s", "h", "a", " ", "o", "f", " ", name>>

\* The environments: each variable unset (os.Getenv gives "") or set.
Envs ==
    {[n \in EnvNames |-> IF n \in S THEN EnvValue(n) ELSE <<>>] :
        S \in SUBSET EnvNames}

NoEnv == [n \in EnvNames |-> <<>>]

\* runGitCommand: the command failed, or what it printed.
GitFails == [err |-> TRUE, out |-> <<>>]
GitOutput(out) == [err |-> FALSE, out |-> out]

\* strings.TrimSpace
Whitespace == {" ", "\t", "\n", "\r"}

RECURSIVE TrimLeft(_)
TrimLeft(s) ==
    IF s # <<>> /\ Head(s) \in Whitespace THEN TrimLeft(Tail(s)) ELSE s

RECURSIVE TrimRight(_)
TrimRight(s) ==
    IF s # <<>> /\ s[Len(s)] \in Whitespace
    THEN TrimRight(SubSeq(s, 1, Len(s) - 1)) ELSE s

TrimSpace(s) == TrimRight(TrimLeft(s))

\* The lines git log -1 --format=%H%n%an%n%ae%n%s%n%ci prints for a commit;
\* %H is the full name of the commit, 40 hexadecimal digits.
CommitLines ==
    <<"0123456789abcdef0123456789abcdef01234567", "A U Thor",
      "author@example.com", "Review the walk", "2024-01-02 03:04:05 +0000">>

\* A repository: the answers of the git commands run in the target for the
\* commit that is asked about.
Repository(gitDir, head, log, diffTree, diffStat, showStat, diff, show) ==
    [gitDir |-> gitDir, head |-> head, log |-> log, diffTree |-> diffTree,
     diffStat |-> diffStat, showStat |-> showStat, diff |-> diff, show |-> show]

NoRepository ==
    Repository(GitFails, GitFails, GitFails, GitFails, GitFails, GitFails,
               GitFails, GitFails)

\* git rev-parse HEAD fails (no commit yet), or prints the name of the commit
\* and a newline.
HeadCommit == <<"h", "e", "a", "d", "0", "1">>
HeadAnswers == {GitFails, GitOutput(HeadCommit \o <<"\n">>)}

\* git log fails, prints nothing (a revision argument such as -n0), or
\* prints the five lines.
LogAnswers == {GitFails, GitOutput(<<"">>), GitOutput(CommitLines)}

\* git diff-tree fails, prints nothing (a merge commit), or a name.
DiffTreeAnswers == {GitFails, GitOutput(<<"">>), GitOutput(<<"M.GO">>)}

\* git diff --stat and git show --stat; show is run only when diff failed.
StatAnswers ==
    {<<GitOutput(<<>>), GitFails>>,
     <<GitOutput(Ascii(" M.GO | 2 +-")), GitFails>>,
     <<GitFails, GitOutput(Ascii(" M.GO | 1 +"))>>,
     <<GitFails, GitFails>>}

\* git diff and git show; show is run only when diff failed.  The last diff
\* is one byte longer than BuildGitContext lets through.
DiffAnswers ==
    {<<GitOutput(<<>>), GitFails>>,
     <<GitOutput(Str("diff --git", 120, 120)), GitFails>>,
     <<GitOutput(Str("diff --git", 50001, 50001)), GitFails>>,
     <<GitFails, GitOutput(Str("diff --git", 90, 90))>>,
     <<GitFails, GitFails>>}

Repositories ==
    {Repository(d, h, l, t, s[1], s[2], f[1], f[2]) :
        d \in {GitFails, GitOutput(<<".git">>)}, h \in HeadAnswers,
        l \in LogAnswers, t \in DiffTreeAnswers, s \in StatAnswers,
        f \in DiffAnswers}

NoSHA == <<"unset">>

\* A bug the detection could have: the environment before the explicit
\* configuration.
DetectCommitSHAEnvFirst(configSHA, e, r) ==
    IF \E i \in 1..Len(droneEnvVars) : e[droneEnvVars[i]] # <<>>
    THEN LET first == CHOOSE i \in 1..Len(droneEnvVars) :
                         /\ e[droneEnvVars[i]] # <<>>
                         /\ \A j \in 1..(i - 1) : e[droneEnvVars[j]] = <<>>
         IN  e[droneEnvVars[first]]
    ELSE IF configSHA # <<>> THEN configSHA
    ELSE IF ~r.head.err /\ r.head.out # <<>> THEN TrimSpace(r.head.out)
    ELSE <<>>

\* git.go, lines 35-69.
DetectCommitSHA(configSHA, e, r) ==
    IF configSHA # <<>> THEN configSHA
    ELSE IF \E i \in 1..Len(droneEnvVars) : e[droneEnvVars[i]] # <<>>
    THEN LET first == CHOOSE i \in 1..Len(droneEnvVars) :
                         /\ e[droneEnvVars[i]] # <<>>
                         /\ \A j \in 1..(i - 1) : e[droneEnvVars[j]] = <<>>
         IN  e[droneEnvVars[first]]
    ELSE IF ~r.head.err /\ r.head.out # <<>> THEN TrimSpace(r.head.out)
    ELSE <<>>

\* git.go, lines 72-97: the commit information, or an error.
CommitInfo(lines) ==
    [SHA |-> lines[1], Author |-> lines[2], Email |-> lines[3],
     Message |-> lines[4], Timestamp |-> lines[5]]

NoCommitInfo == CommitInfo(<<"", "", "", "", "">>)

GetCommitInfo(r) ==
    IF r.log.err
    THEN [info |-> NoCommitInfo, err |-> Failure(<<"failed to get commit info">>)]
    ELSE IF Len(r.log.out) < 5
    THEN [info |-> NoCommitInfo, err |-> Failure(<<"unexpected git log output">>)]
    ELSE [info |-> CommitInfo(r.log.out), err |-> NilError]

\* git.go, lines 99-120: the lines of diff-tree that are not empty.
GetChangedFiles(r) ==
    IF r.diffTree.err
    THEN [files |-> <<>>, err |-> Failure(<<"failed to get changed files">>)]
    ELSE [files |-> SelectSeq(r.diffTree.out, LAMBDA f : f # ""), err |-> NilError]

\* git.go, lines 123-139: git diff, or git show for a commit without parent.
GetCommitDiff(r) ==
    IF ~r.diff.err THEN [text |-> r.diff.out, err |-> NilError]
    ELSE IF ~r.show.err THEN [text |-> r.show.out, err |-> NilError]
    ELSE [text |-> <<>>, err |-> Failure(<<"failed to get commit diff">>)]

\* git.go, lines 142-156.
GetDiffStats(r) ==
    IF ~r.diffStat.err THEN [text |-> r.diffStat.out, err |-> NilError]
    ELSE IF ~r.showStat.err THEN [text |-> r.showStat.out, err |-> NilError]
    ELSE [text |-> <<>>, err |-> Failure(<<"failed to get diff stats">>)]

\* git.go, lines 159-162.
IsGitRepository(r) == ~r.gitDir.err

Newline == Str("LF", 1, 1)

\* git.go, lines 175-180: the block of the commit.  commitInfo.SHA[:12] takes
\* the first 12 of the 40 digits.
CommitBlock(info) ==
    Ascii("=== Git Commit Information ===") \o Newline
        \o Str("Commit, Author, Date, Message",
               (8 + 12 + 1) + (8 + Len(info.Author) + 2 + Len(info.Email) + 2)
                   + (6 + Len(info.Timestamp) + 1) + (9 + Len(info.Message) + 1),
               (8 + 12 + 1) + (8 + Len(info.Author) + 2 + Len(info.Email) + 2)
                   + (6 + Len(info.Timestamp) + 1) + (9 + Len(info.Message) + 1))
        \o Newline

\* Lines 184-190: "- %s\n" for each changed file.
RECURSIVE FileLines(_)
FileLines(files) ==
    IF files = <<>> THEN <<>>
    ELSE Str(Head(files), 2 + Len(Head(files)) + 1, 2 + Len(Head(files)) + 1)
             \o FileLines(Tail(files))

ChangedFilesBlock(files) ==
    Ascii("=== Changed Files ===") \o Newline \o FileLines(files) \o Newline

\* Lines 194-198.
StatsBlock(summary) ==
    Ascii("=== Change Statistics ===") \o Newline \o summary \o Newline

\* Lines 202-211: the diff, cut after 50000 bytes.
DiffBlock(diff) ==
    Ascii("=== Commit Diff ===") \o Newline
        \o (IF ByteLen(diff) > 50000
            THEN Str("diff[:50000]", 50000, 50000)
                     \o Str("... [diff truncated due to size] ...", 38, 38)
            ELSE diff)
        \o Newline

\* git.go, lines 165-214: the context of the commit, or an error.
BuildGitContext(r) ==
    IF GetCommitInfo(r).err # NilError
    THEN [text |-> <<>>, err |-> GetCommitInfo(r).err]
    ELSE [text |-> CommitBlock(GetCommitInfo(r).info)
                       \o (IF GetChangedFiles(r).err = NilError
                              /\ GetChangedFiles(r).files # <<>>
                           THEN ChangedFilesBlock(GetChangedFiles(r).files)
                           ELSE <<>>)
                       \o (IF GetDiffStats(r).err = NilError
                              /\ GetDiffStats(r).text # <<>>
                           THEN StatsBlock(GetDiffStats(r).text) ELSE <<>>)
                       \o (IF GetCommitDiff(r).err = NilError
                              /\ GetCommitDiff(r).text # <<>>
                           THEN DiffBlock(GetCommitDiff(r).text) ELSE <<>>),
          err |-> NilError]

NoGitContext == [text |-> <<>>, err |-> Failure(<<Unset>>)]

-----------------------------------------------------------------------------
(* client.go, buildFullPrompt and buildGitContext.                         *)

\* Lines 298-321: the text and the error buildGitContext returns.
buildGitContext(c, e, r) ==
    IF ~IsGitRepository(r) THEN [text |-> <<>>, err |-> NilError]
    ELSE IF DetectCommitSHA(c.GitCommitSHA, e, r) = <<>>
    THEN [text |-> <<>>, err |-> Failure(<<"could not detect commit SHA">>)]
    ELSE BuildGitContext(r)

\* A bug buildFullPrompt could have: the prompt is lost when the git context
\* fails.
PromptWithGitLostOnError(c, e, r) ==
    IF c.GitDiff /\ buildGitContext(c, e, r).err # NilError THEN <<>>
    ELSE Ascii(c.Prompt) \o Str("LF LF", 2, 2)
             \o (IF c.GitDiff /\ buildGitContext(c, e, r).text # <<>>
                 THEN buildGitContext(c, e, r).text \o Str("LF", 1, 1)
                 ELSE <<>>)

\* Lines 262-277: the prompt, two newlines and, with GitDiff and a git
\* context that was built and is not empty, that context and a newline.
PromptWithGit(c, e, r) ==
    Ascii(c.Prompt) \o Str("LF LF", 2, 2)
        \o (IF c.GitDiff /\ buildGitContext(c, e, r).err = NilError
                         /\ buildGitContext(c, e, r).text # <<>>
            THEN buildGitContext(c, e, r).text \o Str("LF", 1, 1)
            ELSE <<>>)

\* Lines 289-292: the code context under its heading, when there is one.
PromptWithContext(prompt, codeContext) ==
    IF codeContext # <<>>
    THEN prompt \o Ascii("=== Code Files ===") \o Str("LF", 1, 1) \o codeContext
    ELSE prompt

-----------------------------------------------------------------------------
(* Idle values: what the variables of one part hold while another part is  *)
(* being checked.                                                          *)

ConfigIdle == authMode = Unset /\ validateErr = Unset

PricingIdle ==
    model = <<>> /\ calc = NoCalc /\ tokens = NoTokens /\ stats = NoStats

NoFileSystem == [exists |-> FALSE, entries |-> {}]

\* buildContext not called yet.
ContextStart ==
    /\ pc = "start" /\ changedFiles = NilMap /\ todo = <<>> /\ visited = <<>>
    /\ priorityFiles = <<>> /\ otherFiles = <<>> /\ idx = 0
    /\ fileCount = 0 /\ totalSize = 0 /\ context = <<>>

ContextIdle == fsys = NoFileSystem /\ ContextStart

\* The run not begun: nothing built, no call issued, nothing returned.
RunStart ==
    /\ promptBuilder = <<>> /\ estimatedTokens = NoEstimate
    /\ apiURL = NoURL /\ authHeader = "" /\ calls = <<>>
    /\ tokenAnswer = NoTokenAnswer /\ apiAnswer = NoAPIAnswer
    /\ result = NoResult

RunIdle == rpc = "idle" /\ RunStart

\* GitAnalyzer not used yet.
GitStart == sha = NoSHA /\ gitContext = NoGitContext

GitIdle == env = NoEnv /\ repository = NoRepository /\ GitStart

-----------------------------------------------------------------------------
(* The configuration checks: any configuration, then DetectAuthMode and    *)
(* Validate called on it.                                                  *)

InitConfig ==
    cfg \in Configs /\ ConfigIdle /\ PricingIdle /\ ContextIdle /\ RunIdle
    /\ GitIdle

CallDetectAuthMode ==
    /\ authMode' = DetectAuthMode(cfg)
    /\ UNCHANGED <<gitVars, runVars, cfg, validateErr, pricingVars, contextVars>>

CallValidate ==
    /\ validateErr' = Validate(cfg)
    /\ UNCHANGED <<gitVars, runVars, cfg, authMode, pricingVars, contextVars>>

NextConfig == CallDetectAuthMode \/ CallValidate

SpecConfig == InitConfig /\ [][NextConfig]_vars

-----------------------------------------------------------------------------
(* The pricing model: any model identifier, then NewCostCalculator and     *)
(* CalculateCost; both may be evaluated again.                             *)

InitPricing ==
    /\ cfg = DefaultConfig /\ ConfigIdle
    /\ model \in ModelIds /\ calc = NoCalc /\ tokens = NoTokens /\ stats = NoStats
    /\ ContextIdle
    /\ RunIdle
    /\ GitIdle

CallNewCostCalculator ==
    /\ calc' \in NewCostCalculator(model)
    /\ tokens' = NoTokens
    /\ stats' = NoStats
    /\ UNCHANGED <<gitVars, runVars, cfg, configVars, model, contextVars>>

CallCalculateCost ==
    /\ calc # NoCalc
    /\ \E i \in InputTokenCounts, o \in OutputTokenCounts, t \in ThoughtsTokenCounts :
          /\ tokens' = <<i, o, t>>
          /\ stats' = CalculateCost(calc, i, o, t)
    /\ UNCHANGED <<gitVars, runVars, cfg, configVars, model, calc, contextVars>>

NextPricing == CallNewCostCalculator \/ CallCalculateCost

SpecPricing == InitPricing /\ [][NextPricing]_vars

-----------------------------------------------------------------------------
(* The context assembler: buildContext on any file system, with any limits *)
(* and any answer of the repository about the changed files.  One step of  *)
(* the walk is one call of the walk function; one step of the emission is  *)
(* one iteration of the loop over allFiles.                                *)

\* Bound of the configured file count limit.
MaxFilesBound == 2

\* The byte budgets tried: none, two bytes, the default.
ContextSizes == {0, 2, 512000}

ContextConfigs ==
    {[DefaultConfig EXCEPT !.GitDiff = g, !.MaxFiles = n, !.MaxContextSize = b] :
        g \in BOOLEAN, n \in 0..MaxFilesBound, b \in ContextSizes}

InitContext ==
    /\ cfg \in ContextConfigs /\ ConfigIdle /\ PricingIdle
    /\ fsys \in FileSystems /\ ContextStart
    /\ RunIdle
    /\ GitIdle

\* Lines 355-377: the changed files are asked for, and filepath.Walk starts at
\* the target.
BuildContextStart ==
    /\ pc = "start"
    /\ changedFiles' \in ChangedFileMaps(cfg, fsys)
    /\ todo' = <<Root>>
    /\ pc' = "walk"
    /\ UNCHANGED <<gitVars, runVars, cfg, configVars, pricingVars, fsys, visited, priorityFiles,
                   otherFiles, idx, fileCount, totalSize, context>>

\* filepath.Walk reaches the next path and calls the walk function with it.
\* A path Lstat fails on (here: a missing target) and a directory that cannot
\* be listed are handed over with the error; a directory is entered when it
\* was listed and the function returned nil.
WalkStep ==
    /\ pc = "walk" /\ todo # <<>>
    /\ LET path == Head(todo)
           lstatErr == path = Root /\ ~fsys.exists
           listing == IF ~lstatErr /\ IsDir(path) THEN ReadDirNames(fsys, path)
                      ELSE [names |-> <<>>, err |-> FALSE]
           answer == WalkFn(path, lstatErr \/ listing.err, changedFiles)
           entered == IF answer.ret = "nil"
                      THEN [i \in 1..Len(listing.names) |-> path \o <<listing.names[i]>>]
                      ELSE <<>>
       IN  /\ visited' = Append(visited, path)
           /\ todo' = entered \o Tail(todo)
           /\ priorityFiles' = IF answer.add = "priority"
                               THEN Append(priorityFiles, path) ELSE priorityFiles
           /\ otherFiles' = IF answer.add = "other"
                            THEN Append(otherFiles, path) ELSE otherFiles
    /\ UNCHANGED <<gitVars, runVars, cfg, configVars, pricingVars, fsys, pc, changedFiles, idx,
                   fileCount, totalSize, context>>

\* Lines 446-453: the walk has returned (its error is nil, the walk function
\* returning none); the loop over allFiles starts.
StartEmission ==
    /\ pc = "walk" /\ todo = <<>>
    /\ pc' = "emit"
    /\ idx' = 1
    /\ UNCHANGED <<gitVars, runVars, cfg, configVars, pricingVars, fsys, changedFiles, todo, visited,
                   priorityFiles, otherFiles, fileCount, totalSize, context>>

\* Lines 455-461: the file count limit is reached; marker and break.
EmitFileLimit ==
    /\ pc = "emit" /\ idx <= Len(AllFiles)
    /\ FileLimitReached(cfg, fileCount)
    /\ context' = Append(context, MarkerItem("files"))
    /\ pc' = "done"
    /\ UNCHANGED <<gitVars, runVars, cfg, configVars, pricingVars, fsys, changedFiles, todo, visited,
                   priorityFiles, otherFiles, idx, fileCount, totalSize>>

\* Lines 464-467: the file cannot be read; continue with the next.
EmitReadError ==
    /\ pc = "emit" /\ idx <= Len(AllFiles)
    /\ ~FileLimitReached(cfg, fileCount)
    /\ ReadFile(AllFiles[idx]) = ReadFails
    /\ idx' = idx + 1
    /\ UNCHANGED <<gitVars, runVars, cfg, configVars, pricingVars, fsys, pc, changedFiles, todo,
                   visited, priorityFiles, otherFiles, fileCount, totalSize, context>>

\* Lines 470-476: the file would exceed the context size; marker and break.
EmitSizeLimit ==
    /\ pc = "emit" /\ idx <= Len(AllFiles)
    /\ ~FileLimitReached(cfg, fileCount)
    /\ ReadFile(AllFiles[idx]) # ReadFails
    /\ SizeLimitReached(cfg, totalSize, ReadFile(AllFiles[idx]))
    /\ context' = Append(context, MarkerItem("size"))
    /\ pc' = "done"
    /\ UNCHANGED <<gitVars, runVars, cfg, configVars, pricingVars, fsys, changedFiles, todo, visited,
                   priorityFiles, otherFiles, idx, fileCount, totalSize>>

\* Lines 478-487: the file is written to the context and counted.
EmitFile ==
    /\ pc = "emit" /\ idx <= Len(AllFiles)
    /\ ~FileLimitReached(cfg, fileCount)
    /\ ReadFile(AllFiles[idx]) # ReadFails
    /\ ~SizeLimitReached(cfg, totalSize, ReadFile(AllFiles[idx]))
    /\ context' = Append(context, FileItem(AllFiles[idx], ReadFile(AllFiles[idx])))
    /\ fileCount' = fileCount + 1
    /\ totalSize' = totalSize + ReadFile(AllFiles[idx])
    /\ idx' = idx + 1
    /\ UNCHANGED <<gitVars, runVars, cfg, configVars, pricingVars, fsys, pc, changedFiles, todo,
                   visited, priorityFiles, otherFiles>>

\* Line 494: the loop is through; the context is returned.
ReturnContext ==
    /\ pc = "emit" /\ idx > Len(AllFiles)
    /\ pc' = "done"
    /\ UNCHANGED <<gitVars, runVars, cfg, configVars, pricingVars, fsys, changedFiles, todo, visited,
                   priorityFiles, otherFiles, idx, fileCount, totalSize, context>>

NextContext ==
    \/ BuildContextStart
    \/ WalkStep
    \/ StartEmission
    \/ EmitFileLimit
    \/ EmitReadError
    \/ EmitSizeLimit
    \/ EmitFile
    \/ ReturnContext

SpecContext == InitContext /\ [][NextContext]_vars

-----------------------------------------------------------------------------
(* The run: Plugin.Exec, or GenerateContent called on a client, with any   *)
(* configuration, over a file system, against any answers of the           *)
(* repository, of the token endpoint and of the API.  buildContext runs    *)
(* inside buildFullPrompt, step by step as above.                          *)

RunPrompts == {"", "Review this code"}
RunAPIKeys == {"", "test-api-key"}
RunCredentials ==
    {"", CredsNotJSON, CredsNoKey, CredsKeyNotPKCS8, CredsKeyNotRSA,
     CredsKeyTooShort, CredsNoTokenURI, CredsValid}
RunProjects == {"", "my-project"}
Locations == {"global", "us-central1", "Global"}
RunModels == {Gemini \o V25 \o Pro, Gemini \o V20 \o Flash \o Lite \o <<"-", "0", "0", "1">>}

\* The configurations of the credentials, with the default limits.
AuthConfigs ==
    {[DefaultConfig EXCEPT !.Prompt = p, !.Model = m, !.APIKey = k,
                           !.GCPCredentials = c, !.GCPProject = j,
                           !.GCPLocation = l] :
        p \in RunPrompts, m \in RunModels, k \in RunAPIKeys, c \in RunCredentials,
        j \in RunProjects, l \in Locations}

\* The configurations of the limits and of GitDiff, with an API key.
LimitConfigs ==
    {[DefaultConfig EXCEPT !.Prompt = "Review this code", !.APIKey = "test-api-key",
                           !.GitDiff = g, !.MaxFiles = n, !.MaxContextSize = b] :
        g \in BOOLEAN, n \in {0, 1}, b \in {0, 2}}

RunConfigs == AuthConfigs \cup LimitConfigs

\* The target missing; Dockerfile and M.GO; bad.go (unreadable) and edge.go.
RunFileSystems ==
    {NoFileSystem,
     [exists |-> TRUE, entries |-> {<<3>>, <<4>>}],
     [exists |-> TRUE, entries |-> {<<5>>, <<7>>}]}

\* The environments of the run: no variable set, or the first.
RunEnvs ==
    {NoEnv, [NoEnv EXCEPT !["DRONE_COMMIT_SHA"] = EnvValue("DRONE_COMMIT_SHA")]}

\* The repositories of the run: the target is none; or it is one, and no
\* query fails, one of them fails, or all of them fail.
AllQueriesFail == [NoRepository EXCEPT !.gitDir = GitOutput(<<".git">>)]

RunRepositories ==
    {r \in Repositories :
        \/ r = NoRepository
        \/ r = AllQueriesFail
        \/ /\ IsGitRepository(r)
           /\ Cardinality({q \in {"head", "log", "diffTree", "diffStat", "diff"} :
                              r[q].err}) <= 1
           /\ r.showStat.err /\ r.show.err
           /\ ~r.log.err => Len(r.log.out) = 5
           /\ ~r.diffTree.err => r.diffTree.out # <<"">>
           /\ ~r.diffStat.err => r.diffStat.out # <<>>
           /\ ~r.diff.err => ByteLen(r.diff.out) = 120}

\* Without GitDiff neither the environment nor the repository is looked at.
InitRun ==
    /\ cfg \in RunConfigs /\ ConfigIdle /\ PricingIdle
    /\ fsys \in RunFileSystems /\ ContextStart
    /\ rpc = "start" /\ RunStart
    /\ IF cfg.GitDiff
       THEN env \in RunEnvs /\ repository \in RunRepositories
       ELSE env = NoEnv /\ repository = NoRepository
    /\ GitStart

\* plugin.go, Exec, lines 253-270: Validate, DetectAuthMode, the client.
CallExec ==
    /\ rpc = "start"
    /\ validateErr' = Validate(cfg)
    /\ IF Validate(cfg) # ErrNil
       THEN /\ result' = Failed(Failure(<<Validate(cfg)>>))
            /\ rpc' = "returned"
            /\ authMode' = authMode
       ELSE /\ authMode' = DetectAuthMode(cfg)
            /\ rpc' = "client"
            /\ result' = result
    /\ UNCHANGED <<cfg, gitVars, pricingVars, contextVars, promptBuilder, estimatedTokens,
                   apiURL, authHeader, calls, tokenAnswer, apiAnswer>>

\* GenerateContent, lines 86-94, called by Exec or on a client of its own,
\* and buildFullPrompt, lines 258-277: the calculator, the prompt and the git
\* context.
CallGenerateContent ==
    /\ rpc \in {"start", "client"}
    /\ calc' \in NewCostCalculator(cfg.Model)
    /\ promptBuilder' = PromptWithGit(cfg, env, repository)
    /\ sha' = IF cfg.GitDiff /\ IsGitRepository(repository)
              THEN DetectCommitSHA(cfg.GitCommitSHA, env, repository) ELSE sha
    /\ gitContext' = IF cfg.GitDiff THEN buildGitContext(cfg, env, repository)
                     ELSE gitContext
    /\ rpc' = "context"
    /\ UNCHANGED <<cfg, env, repository, configVars, model, tokens, stats,
                   contextVars, estimatedTokens, apiURL, authHeader, calls,
                   tokenAnswer, apiAnswer, result>>

\* buildFullPrompt, line 280: a step of buildContext.
BuildContextStep ==
    /\ rpc = "context"
    /\ NextContext

\* buildFullPrompt, lines 280-294, and GenerateContent, line 100:
\* buildContext has returned; the prompt is complete and measured.
PromptBuilt ==
    /\ rpc = "context" /\ pc = "done"
    /\ LET codeContext == Str("context", ContextBytes(cfg, context),
                              ContextBytes(cfg, context))
           fullPrompt == PromptWithContext(promptBuilder, codeContext)
       IN  /\ promptBuilder' = fullPrompt
           /\ estimatedTokens' = EstimateTokens(fullPrompt)
    /\ rpc' = "auth"
    /\ UNCHANGED <<cfg, gitVars, configVars, pricingVars, contextVars, apiURL, authHeader,
                   calls, tokenAnswer, apiAnswer, result>>

\* Lines 123-137: the API-key mode; the key goes into the URL.
UseAPIKey ==
    /\ rpc = "auth"
    /\ DetectAuthMode(cfg) = AuthModeAPIKey
    /\ authMode' = AuthModeAPIKey
    /\ apiURL' = APIKeyURL(cfg)
    /\ rpc' = "request"
    /\ UNCHANGED <<cfg, gitVars, validateErr, pricingVars, contextVars, promptBuilder,
                   estimatedTokens, authHeader, calls, tokenAnswer, apiAnswer,
                   result>>

\* Lines 139-144 and getAccessToken, lines 519-552: the Vertex AI mode; the
\* credentials are parsed, the JWT is signed and the token request is sent,
\* or the run fails before it.
UseVertexAI ==
    /\ rpc = "auth"
    /\ DetectAuthMode(cfg) = AuthModeVertexAI
    /\ authMode' = AuthModeVertexAI
    /\ IF BeforeTokenExchange(cfg) # NilError
       THEN /\ result' = Failed(Wrap("failed to get access token",
                                     BeforeTokenExchange(cfg)))
            /\ rpc' = "returned"
            /\ calls' = calls
       ELSE /\ calls' = Append(calls,
                   Call("token",
                        URL(<<ParseCredentials(cfg.GCPCredentials).TokenURI>>,
                            <<>>, <<>>),
                        ""))
            /\ rpc' = "token"
            /\ result' = result
    /\ UNCHANGED <<cfg, gitVars, validateErr, pricingVars, contextVars, promptBuilder,
                   estimatedTokens, apiURL, authHeader, tokenAnswer, apiAnswer>>

\* Lines 171-172: no credentials.
NoCredentials ==
    /\ rpc = "auth"
    /\ DetectAuthMode(cfg) = AuthModeNone
    /\ authMode' = AuthModeNone
    /\ result' = Failed(Failure(<<ErrNoCredentials>>))
    /\ rpc' = "returned"
    /\ UNCHANGED <<cfg, gitVars, validateErr, pricingVars, contextVars, promptBuilder,
                   estimatedTokens, apiURL, authHeader, calls, tokenAnswer,
                   apiAnswer>>

\* The last call has been answered.
Answered(cs) == [cs EXCEPT ![Len(cs)].answered = TRUE]

\* getAccessToken, lines 550-569, and GenerateContent, lines 142-169: the
\* token endpoint has answered; the bearer header and the URL are set, or the
\* run fails.
TokenAnswered ==
    /\ rpc = "token"
    /\ \E a \in TokenAnswers :
          /\ tokenAnswer' = a
          /\ calls' = Answered(calls)
          /\ IF TokenOutcome(a).err # NilError
             THEN /\ result' = Failed(Wrap("failed to get access token",
                                           TokenOutcome(a).err))
                  /\ rpc' = "returned"
                  /\ UNCHANGED <<authHeader, apiURL>>
             ELSE /\ authHeader' = "Bearer " \o TokenOutcome(a).token
                  /\ apiURL' = VertexURL(cfg)
                  /\ rpc' = "request"
                  /\ result' = result
    /\ UNCHANGED <<cfg, gitVars, configVars, pricingVars, contextVars, promptBuilder,
                   estimatedTokens, apiAnswer>>

\* Lines 186-198: the generation request is sent, with the Authorization
\* header when authHeader is set.
SendRequest ==
    /\ rpc = "request"
    /\ calls' = Append(calls, Call("generate", apiURL, authHeader))
    /\ rpc' = "response"
    /\ UNCHANGED <<cfg, gitVars, configVars, pricingVars, contextVars, promptBuilder,
                   estimatedTokens, apiURL, authHeader, tokenAnswer, apiAnswer,
                   result>>

\* Lines 198-253: the API has answered; GenerateContent returns.
ResponseReceived ==
    /\ rpc = "response"
    /\ \E a \in APIAnswers :
          /\ apiAnswer' = a
          /\ result' = ResponseOutcome(calc, estimatedTokens, a)
    /\ calls' = Answered(calls)
    /\ rpc' = "returned"
    /\ UNCHANGED <<cfg, gitVars, configVars, pricingVars, contextVars, promptBuilder,
                   estimatedTokens, apiURL, authHeader, tokenAnswer>>

NextRun ==
    \/ CallExec
    \/ CallGenerateContent
    \/ BuildContextStep
    \/ PromptBuilt
    \/ UseAPIKey
    \/ UseVertexAI
    \/ NoCredentials
    \/ TokenAnswered
    \/ SendRequest
    \/ ResponseReceived

SpecRun == InitRun /\ [][NextRun]_vars

-----------------------------------------------------------------------------
(* The token estimate: EstimateTokens called on any text of at most          *)
(* MaxTextLen characters, by the calculator of any model.                    *)

\* Characters by the length of their UTF-8 encoding: a letter, an accented
\* letter, a CJK ideograph.
OneByteChar == Str("a", 1, 1)
TwoByteChar == Str("e-acute", 1, 2)
ThreeByteChar == Str("CJK", 1, 3)
SampleChars == {OneByteChar, TwoByteChar, ThreeByteChar}

\* Bound of the texts: their number of characters.
MaxTextLen == 4

RECURSIVE TextsOf(_)
TextsOf(n) ==
    IF n = 0 THEN {<<>>}
    ELSE LET shorter == TextsOf(n - 1)
         IN  shorter \cup {t \o ch : t \in shorter, ch \in SampleChars}

InitEstimate ==
    /\ cfg = DefaultConfig /\ ConfigIdle
    /\ model \in RunModels /\ calc = NoCalc /\ tokens = NoTokens /\ stats = NoStats
    /\ ContextIdle
    /\ rpc = "idle" /\ promptBuilder \in TextsOf(MaxTextLen)
    /\ estimatedTokens = NoEstimate
    /\ apiURL = NoURL /\ authHeader = "" /\ calls = <<>>
    /\ tokenAnswer = NoTokenAnswer /\ apiAnswer = NoAPIAnswer
    /\ result = NoResult
    /\ GitIdle

\* calc.EstimateTokens(text)
CallEstimateTokens ==
    /\ calc # NoCalc
    /\ estimatedTokens' = EstimateTokens(promptBuilder)
    /\ UNCHANGED <<cfg, gitVars, configVars, pricingVars, contextVars, rpc, promptBuilder,
                   apiURL, authHeader, calls, tokenAnswer, apiAnswer, result>>

NextEstimate == CallNewCostCalculator \/ CallEstimateTokens

SpecEstimate == InitEstimate /\ [][NextEstimate]_vars

-----------------------------------------------------------------------------
(* The repository introspector: DetectCommitSHA and BuildGitContext called *)
(* on a GitAnalyzer, with any explicit commit, in any environment, against *)
(* any answers of the repository.                                          *)

ConfigSHAs == {<<>>, <<"c", "f", "g", "0", "1">>}

InitGit ==
    /\ cfg \in {[DefaultConfig EXCEPT !.GitDiff = TRUE, !.GitCommitSHA = c] :
                   c \in ConfigSHAs}
    /\ ConfigIdle /\ PricingIdle /\ ContextIdle /\ RunIdle
    /\ env \in Envs
    /\ repository \in {r \in Repositories : IsGitRepository(r)}
    /\ GitStart

\* git.DetectCommitSHA(cfg.GitCommitSHA)
CallDetectCommitSHA ==
    /\ sha' = DetectCommitSHA(cfg.GitCommitSHA, env, repository)
    /\ UNCHANGED <<cfg, configVars, pricingVars, contextVars, runVars, env,
                   repository, gitContext>>

\* git.BuildGitContext(sha)
CallBuildGitContext ==
    /\ sha # NoSHA
    /\ gitContext' = BuildGitContext(repository)
    /\ UNCHANGED <<cfg, configVars, pricingVars, contextVars, runVars, env,
                   repository, sha>>

NextGit == CallDetectCommitSHA \/ CallBuildGitContext

SpecGit == InitGit /\ [][NextGit]_vars

-----------------------------------------------------------------------------
(* C1: DetectAuthMode depends on (APIKey, GCPCredentials, GCPProject)      *)
(* only: the API-key mode whenever APIKey is non-empty, the Vertex AI mode *)
(* only when APIKey is empty and both GCPCredentials and GCPProject are    *)
(* non-empty, None in every other case.                                    *)
C1_DetectAuthMode ==
    authMode # Unset =>
        /\ (cfg.APIKey # "" => authMode = AuthModeAPIKey)
        /\ (authMode = AuthModeVertexAI <=>
               (cfg.APIKey = "" /\ cfg.GCPCredentials # "" /\ cfg.GCPProject # ""))
        /\ (authMode = AuthModeNone <=>
               (cfg.APIKey = "" /\ (cfg.GCPCredentials = "" \/ cfg.GCPProject = "")))
        /\ \A c \in Configs :
               (c.APIKey = cfg.APIKey /\ c.GCPCredentials = cfg.GCPCredentials
                /\ c.GCPProject = cfg.GCPProject) => DetectAuthMode(c) = authMode

\* The API key wins although service-account credentials and a project are set.
C1_Witness ==
    /\ authMode = AuthModeAPIKey
    /\ cfg.APIKey # "" /\ cfg.GCPCredentials # "" /\ cfg.GCPProject # ""

(* C2: Validate returns ErrPromptRequired if and only if Prompt is empty,  *)
(* whatever the credentials are.                                           *)
C2_PromptRequired ==
    validateErr # Unset => (validateErr = ErrPromptRequired <=> cfg.Prompt = "")

\* An empty prompt with no credentials at all is reported as the prompt's error.
C2_Witness ==
    /\ validateErr = ErrPromptRequired
    /\ cfg.Prompt = "" /\ cfg.APIKey = "" /\ cfg.GCPCredentials = ""

(* C3: with a non-empty Prompt, Validate returns ErrNoCredentials exactly  *)
(* when DetectAuthMode is None, and nil when the mode is the API key or    *)
(* Vertex AI with a non-empty project.                                     *)
C3_NoCredentials ==
    (validateErr # Unset /\ cfg.Prompt # "") =>
        /\ (validateErr = ErrNoCredentials <=> DetectAuthMode(cfg) = AuthModeNone)
        /\ (DetectAuthMode(cfg) = AuthModeAPIKey => validateErr = ErrNil)
        /\ ((DetectAuthMode(cfg) = AuthModeVertexAI /\ cfg.GCPProject # "")
               => validateErr = ErrNil)

\* A prompt with neither key nor project is refused for its credentials.
C3_Witness ==
    /\ validateErr = ErrNoCredentials
    /\ cfg.Prompt # "" /\ cfg.APIKey = "" /\ cfg.GCPProject = ""

(* C4: with a non-empty Prompt, an empty APIKey, non-empty GCPCredentials  *)
(* and an empty GCPProject, Validate fails with ErrProjectRequired.        *)
C4_ProjectRequired ==
    (/\ validateErr # Unset
     /\ cfg.Prompt # "" /\ cfg.APIKey = ""
     /\ cfg.GCPCredentials # "" /\ cfg.GCPProject = "")
        => validateErr = ErrProjectRequired

-----------------------------------------------------------------------------
(* C5: CalculateCost selects the price tier from the input token count     *)
(* only.  With a threshold T > 0 and inputTokens > T the long-context      *)
(* input and output prices are used for all three categories (thinking     *)
(* tokens at the long output price) and IsLongContext is true; with        *)
(* inputTokens <= T, and with threshold 0 whatever the count, the short    *)
(* prices are used and IsLongContext is false.                             *)
C5_PriceTier ==
    stats # NoStats =>
        LET p == calc.pricing
            T == p.LongContextThreshold
        IN  /\ (T > 0 /\ tokens[1] > T) =>
                   /\ stats.IsLongContext
                   /\ stats.InputCost = tokens[1] * p.InputPriceLong
                   /\ stats.OutputCost = tokens[2] * p.OutputPriceLong
                   /\ stats.ThoughtsCost = tokens[3] * p.OutputPriceLong
            /\ (T = 0 \/ tokens[1] <= T) =>
                   /\ ~stats.IsLongContext
                   /\ stats.InputCost = tokens[1] * p.InputPriceShort
                   /\ stats.OutputCost = tokens[2] * p.OutputPriceShort
                   /\ stats.ThoughtsCost = tokens[3] * p.OutputPriceShort

\* Input exactly at the threshold of an entry that has one: still the short tier.
C5_Witness ==
    /\ stats # NoStats
    /\ calc.pricing.LongContextThreshold > 0
    /\ tokens[1] = calc.pricing.LongContextThreshold
    /\ tokens[2] > 0 /\ tokens[3] > 0
    /\ ~stats.IsLongContext

(* C6: the report of CalculateCost echoes the three token counts, and its  *)
(* totals are the sums of its categories: TotalTokens = InputTokens +      *)
(* OutputTokens + ThoughtsTokens and TotalCost = InputCost + OutputCost +  *)
(* ThoughtsCost, each category cost being tokens / 1,000,000 times the     *)
(* price of the selected tier.                                             *)
C6_Totals ==
    stats # NoStats =>
        LET p == calc.pricing
        IN  /\ stats.InputTokens = tokens[1]
            /\ stats.OutputTokens = tokens[2]
            /\ stats.ThoughtsTokens = tokens[3]
            /\ stats.TotalTokens = tokens[1] + tokens[2] + tokens[3]
            /\ stats.TotalCost = stats.InputCost + stats.OutputCost + stats.ThoughtsCost
            /\ \E tier \in {<<p.InputPriceShort, p.OutputPriceShort>>,
                            <<p.InputPriceLong, p.OutputPriceLong>>} :
                   /\ stats.InputCost = tokens[1] * tier[1]
                   /\ stats.OutputCost = tokens[2] * tier[2]
                   /\ stats.ThoughtsCost = tokens[3] * tier[2]

\* A report with tokens, and a cost, in each of the three categories.
C6_Witness ==
    /\ stats # NoStats
    /\ tokens[1] > 0 /\ tokens[2] > 0 /\ tokens[3] > 0
    /\ stats.InputCost > 0 /\ stats.OutputCost > 0 /\ stats.ThoughtsCost > 0

(* C7: for a model identifier that equals no key of the pricing table and  *)
(* contains no key as a case-insensitive substring, NewCostCalculator      *)
(* returns (it has no error to raise) the default entry: 1.00 input and    *)
(* 5.00 output per million for both tiers, no long-context threshold.      *)
C7_DefaultPricing ==
    (/\ model \notin PricingKeys
     /\ \A key \in PricingKeys : ~Contains(ToLower(model), ToLower(key)))
        => /\ NewCostCalculator(model) # {}
           /\ calc # NoCalc =>
                 /\ calc.model = model
                 /\ calc.pricing.Name = model
                 /\ calc.pricing.InputPriceShort = USD(1000)
                 /\ calc.pricing.InputPriceLong = USD(1000)
                 /\ calc.pricing.OutputPriceShort = USD(5000)
                 /\ calc.pricing.OutputPriceLong = USD(5000)
                 /\ calc.pricing.LongContextThreshold = 0

\* "gemini-2.5" is part of several keys and contains none: the default entry.
C7_Witness ==
    /\ model = Gemini \o V25
    /\ calc # NoCalc
    /\ calc.pricing.InputPriceShort = USD(1000)

(* C8: the pricing model is deterministic: two evaluations of              *)
(* NewCostCalculator for the same model identifier select the same pricing *)
(* entry, and CalculateCost then gives the same costs for every token      *)
(* triple, also for an identifier that is no exact key and contains more   *)
(* than one key.                                                           *)
C8_Deterministic ==
    [][(calc # NoCalc /\ calc' # NoCalc) =>
          /\ calc'.pricing = calc.pricing
          /\ \A i \in InputTokenCounts, o \in OutputTokenCounts,
                t \in ThoughtsTokenCounts :
                 CalculateCost(calc', i, o, t) = CalculateCost(calc, i, o, t)]_vars

-----------------------------------------------------------------------------
\* A directory into which the walk must not descend: hidden or excluded.
SkippedDirName(name) == HasPrefix(name, <<".">>) \/ name \in excludeDirs

\* The path lies beneath a directory, below the target, that must be skipped.
BeneathSkippedDir(path) ==
    \E k \in 1..(Len(path) - 1) : SkippedDirName(BaseName(SubSeq(path, 1, k)))

\* The files written to the context so far.
EmittedFiles == {i \in 1..Len(context) : context[i].kind = "file"}

(* C9: no file emitted by buildContext is larger than 100 KiB, is hidden,  *)
(* has an extension outside the allow-list unless it is named exactly      *)
(* Dockerfile, or lies beneath a hidden or excluded directory below the    *)
(* target; and the walk never visits an entry inside such a directory.     *)
C9_OnlyEligibleFiles ==
    /\ \A i \in EmittedFiles :
          LET name == BaseName(context[i].path)
          IN  /\ context[i].size <= 100 * 1024
              /\ ~HasPrefix(name, <<".">>)
              /\ (Ext(ToLower(name)) \in extensions
                  \/ name = <<"D", "o", "c", "k", "e", "r", "f", "i", "l", "e">>)
              /\ ~BeneathSkippedDir(context[i].path)
    /\ \A j \in 1..Len(visited) : ~BeneathSkippedDir(visited[j])

(* C10: at every point of the emission loop and in the final bundle the    *)
(* number of emitted files is at most the configured maximum file count    *)
(* (0 meaning no limit); files that fail to be read are not counted.       *)
C10_MaxFiles ==
    /\ cfg.MaxFiles > 0 => Cardinality(EmittedFiles) <= cfg.MaxFiles
    /\ fileCount = Cardinality(EmittedFiles)
    /\ \A i \in EmittedFiles : Info(context[i].path).content # ReadFails

\* The loop has ended with as many files written as the limit allows, one of
\* them after a file that could not be read: had that file been counted, the
\* limit would have cut the later one.
C10_Witness ==
    /\ pc = "done"
    /\ cfg.MaxFiles > 0
    /\ Cardinality(EmittedFiles) = cfg.MaxFiles
    /\ \E j \in 1..Len(AllFiles) :
          /\ Info(AllFiles[j]).content = ReadFails
          /\ \E i \in EmittedFiles : \E k \in (j + 1)..Len(AllFiles) :
                context[i].path = AllFiles[k]

(* C11: the context produced by buildContext never exceeds the configured  *)
(* byte budget: with a positive MaxContextSize the size in bytes of the    *)
(* context after every emitted file, and of the final context, is at most  *)
(* MaxContextSize.                                                         *)
C11_ByteBudget ==
    cfg.MaxContextSize > 0 => ContextBytes(cfg, context) <= cfg.MaxContextSize

\* The truncation markers of the context, and its last piece.
Markers == {i \in 1..Len(context) : context[i].kind = "marker"}
LastPiece == IF context = <<>> THEN FileItem(Root, 0) ELSE context[Len(context)]

\* The collected files os.ReadFile can read.
ReadableCollected ==
    {j \in 1..Len(AllFiles) : Info(AllFiles[j]).content # ReadFails}

RECURSIVE ContentBytes(_)
ContentBytes(js) ==
    IF js = {} THEN 0
    ELSE LET j == CHOOSE k \in js : TRUE
         IN  Info(AllFiles[j]).content + ContentBytes(js \ {j})

\* All the collected files together are within the byte budget.
BudgetNotBinding ==
    cfg.MaxContextSize = 0 \/ ContentBytes(ReadableCollected) <= cfg.MaxContextSize

\* The loop has stopped, the file limit not reached, at a file whose content
\* would exceed the byte budget.
StoppedOverBudget ==
    /\ pc = "done" /\ idx <= Len(AllFiles)
    /\ cfg.MaxFiles = 0 \/ fileCount < cfg.MaxFiles
    /\ idx \in ReadableCollected
    /\ cfg.MaxContextSize > 0
    /\ totalSize + Info(AllFiles[idx]).content > cfg.MaxContextSize

\* Markers come one at most and last; no limit hit, no marker.
MarkerDiscipline ==
    /\ Cardinality(Markers) <= 1
    /\ \A i \in Markers : i = Len(context)
    /\ (/\ pc = "done"
        /\ cfg.MaxFiles = 0 \/ Len(AllFiles) <= cfg.MaxFiles
        /\ BudgetNotBinding) => Markers = {}

InChangedSet(path) ==
    \/ path \in changedFiles.keys
    \/ (<<TargetInRepo>> \o path) \in changedFiles.keys

\* Of the collected files p and q, q is in the context only after p.
EmittedBefore(p, q) ==
    \A i \in EmittedFiles :
        context[i].path = AllFiles[q]
            => \E j \in 1..(i - 1) : context[j] = FileItem(AllFiles[p],
                                                           Info(AllFiles[p]).content)

(* C13: when diff-scope is active and the changed-file set is available,   *)
(* every changed file that is otherwise eligible (and can be read) is in   *)
(* the context before every eligible file that is not changed, for every   *)
(* target inside the repository, a subdirectory of its root included.      *)
C13_ChangedFirst ==
    (cfg.GitDiff /\ ~changedFiles.isNil) =>
        \A p \in ReadableCollected, q \in 1..Len(AllFiles) :
            (InChangedSet(AllFiles[p]) /\ ~InChangedSet(AllFiles[q]))
                => EmittedBefore(p, q)

-----------------------------------------------------------------------------
\* The indices of the generation requests and of the token requests issued.
GenerateCalls == {i \in 1..Len(calls) : calls[i].kind = "generate"}
TokenCalls == {i \in 1..Len(calls) : calls[i].kind = "token"}

\* The configuration is one of the API-key mode, of the service-account mode.
APIKeyConfigured == cfg.APIKey # ""
ServiceAccountConfigured ==
    cfg.APIKey = "" /\ cfg.GCPCredentials # "" /\ cfg.GCPProject # ""

\* The generation request has been sent.
RequestSent == rpc = "response" \/ (rpc = "returned" /\ apiAnswer # NoAPIAnswer)

(* C14: in API-key mode a run that reaches the request step issues exactly *)
(* one outbound HTTP call and no token-exchange call, also when            *)
(* service-account credentials and a project are supplied as well: a POST  *)
(* to the global hosted endpoint /v1beta/models/{model}:generateContent    *)
(* with the key in the query string and no Authorization header.           *)
C14_APIKeyCall ==
    APIKeyConfigured =>
        /\ TokenCalls = {}
        /\ Len(calls) <= 1
        /\ RequestSent =>
              /\ Len(calls) = 1
              /\ calls[1].kind = "generate"
              /\ calls[1].method = "POST"
              /\ calls[1].url.host = <<"generativelanguage.googleapis.com">>
              /\ calls[1].url.path
                    = <<"/v1beta/models/", cfg.Model, ":generateContent">>
              /\ calls[1].url.query = <<"key=", cfg.APIKey>>
              /\ calls[1].authorization = ""

\* A run with a key, valid service-account credentials and a project has
\* returned a text after its one call.
C14_Witness ==
    /\ rpc = "returned" /\ result.err = NilError
    /\ cfg.APIKey # "" /\ cfg.GCPCredentials = CredsValid /\ cfg.GCPProject # ""
    /\ Len(calls) = 1 /\ calls[1].kind = "generate"

\* The path of the global hosted endpoint, and the region-qualified endpoint.
GlobalPath == <<"/v1beta/models/", cfg.Model, ":generateContent">>
RegionalHost == <<cfg.GCPLocation, "-aiplatform.googleapis.com">>
RegionalPath ==
    <<"/v1/projects/", cfg.GCPProject, "/locations/", cfg.GCPLocation,
      "/publishers/google/models/", cfg.Model, ":generateContent">>

\* The bearer header made of the token the token endpoint has sent.
BearerOfToken == "Bearer " \o tokenAnswer.body.access_token

(* C15: in service-account mode with location "global" a successful run    *)
(* issues exactly two outbound calls in this order: the token exchange,    *)
(* then, only after the token exchange has returned, the generation POST   *)
(* to the global hosted endpoint with an Authorization bearer header; the  *)
(* generation call never carries a query-string key.                       *)
C15_GlobalServiceAccount ==
    (ServiceAccountConfigured /\ cfg.GCPLocation = "global") =>
        /\ (rpc = "returned" /\ result.err = NilError) =>
              /\ Len(calls) = 2
              /\ calls[1].kind = "token" /\ calls[2].kind = "generate"
              /\ calls[2].method = "POST"
              /\ calls[2].url.host = <<"generativelanguage.googleapis.com">>
              /\ calls[2].url.path = GlobalPath
              /\ calls[2].authorization = BearerOfToken
        /\ \A i \in GenerateCalls :
              /\ calls[i].url.query = <<>>
              /\ i = 2 /\ calls[1].kind = "token" /\ calls[1].answered
              /\ tokenAnswer # NoTokenAnswer

\* A run with valid credentials and location "global" has returned a text
\* after the token exchange and the generation call.
C15_Witness ==
    /\ rpc = "returned" /\ result.err = NilError /\ result.text # <<>>
    /\ ServiceAccountConfigured /\ cfg.GCPLocation = "global"
    /\ Len(calls) = 2 /\ calls[2].url.host = <<"generativelanguage.googleapis.com">>

(* C16: in service-account mode the endpoint is chosen by the location     *)
(* alone: the literal "global" routes to the global hosted endpoint, every *)
(* other location to the host {location}-aiplatform with the path          *)
(* /v1/projects/{project}/locations/{location}/publishers/google/models/   *)
(* {model}:generateContent; in both cases authentication is by bearer      *)
(* header only.                                                            *)
C16_EndpointByLocation ==
    ServiceAccountConfigured =>
        \A i \in GenerateCalls :
            /\ cfg.GCPLocation = "global" =>
                  /\ calls[i].url.host = <<"generativelanguage.googleapis.com">>
                  /\ calls[i].url.path = GlobalPath
            /\ cfg.GCPLocation # "global" =>
                  /\ calls[i].url.host = RegionalHost
                  /\ calls[i].url.path = RegionalPath
            /\ calls[i].url.query = <<>>
            /\ calls[i].authorization = BearerOfToken

\* The generation call of a run whose location differs from "global" in its
\* capital letter only has gone to the region-qualified host.
C16_Witness ==
    /\ ServiceAccountConfigured /\ cfg.GCPLocation = "Global"
    /\ GenerateCalls # {}
    /\ calls[2].url.host = <<"Global", "-aiplatform.googleapis.com">>

\* The credentials whose key cannot be parsed or cannot sign.
KeyFailures == {CredsNoKey, CredsKeyNotPKCS8, CredsKeyNotRSA, CredsKeyTooShort}

\* The token endpoint has answered, and not with a token.
TokenExchangeFailed ==
    /\ tokenAnswer # NoTokenAnswer
    /\ \/ tokenAnswer.err # ""
       \/ tokenAnswer.status \notin 200..299
       \/ ~tokenAnswer.body.parses

(* C17: any failure of the authenticator in service-account mode           *)
(* (unparseable credentials, undecodable or unparseable key, non-RSA key,  *)
(* signing failure, failed token request, non-success token status,        *)
(* unparseable token response) aborts the run with an error and zero       *)
(* generation calls; a key-parsing or signing failure also issues zero     *)
(* token-exchange calls.                                                   *)
C17_AuthenticatorFailure ==
    ServiceAccountConfigured =>
        /\ (\/ cfg.GCPCredentials \in KeyFailures \cup {CredsNotJSON, CredsNoTokenURI}
            \/ TokenExchangeFailed)
              => /\ GenerateCalls = {}
                 /\ rpc = "returned" =>
                       (result.err # NilError /\ result.text = <<>>
                        /\ result.stats = NoStats)
        /\ TokenExchangeFailed => rpc = "returned"
        /\ cfg.GCPCredentials \in KeyFailures => calls = <<>>

\* GenerateContent has failed on a key that is no RSA key, no call issued.
C17_Witness ==
    /\ ServiceAccountConfigured /\ cfg.GCPCredentials = CredsKeyNotRSA
    /\ rpc = "returned" /\ calls = <<>>
    /\ result.err.msgs = <<"failed to get access token", "failed to create JWT",
                           "private key is not RSA">>

(* C18: a configuration error never leads to a network call: when Validate *)
(* fails, Exec returns that error before the client is created, and when   *)
(* GenerateContent is invoked with AuthMode None it fails with             *)
(* ErrNoCredentials without any HTTP request (neither token exchange nor   *)
(* generation).                                                            *)
C18_NoCallOnConfigError ==
    /\ validateErr \notin {Unset, ErrNil} =>
          /\ rpc = "returned" /\ result = Failed(Failure(<<validateErr>>))
          /\ calc = NoCalc /\ promptBuilder = <<>> /\ pc = "start"
          /\ calls = <<>>
    /\ (cfg.APIKey = "" /\ (cfg.GCPCredentials = "" \/ cfg.GCPProject = "")) =>
          /\ calls = <<>>
          /\ (rpc = "returned" /\ validateErr = Unset) =>
                result = Failed(Failure(<<ErrNoCredentials>>))

\* GenerateContent, called on a client whose configuration has credentials
\* and no project, has built its prompt and failed without a call.
C18_Witness ==
    /\ rpc = "returned" /\ validateErr = Unset
    /\ cfg.APIKey = "" /\ cfg.GCPCredentials = CredsValid /\ cfg.GCPProject = ""
    /\ promptBuilder # <<>> /\ calls = <<>>
    /\ result.err = Failure(<<ErrNoCredentials>>)

\* The API has answered with a status and a body.
APIAnswered == rpc = "returned" /\ apiAnswer # NoAPIAnswer /\ apiAnswer.err = ""

(* C19: the outcome of the generation call is decided by status and body:  *)
(* for every non-2xx status it fails with an error carrying the status     *)
(* code and the raw body; for every 2xx status with a body carrying a      *)
(* top-level error object it fails with that object's message; for every   *)
(* 2xx status with a parseable body without an error object it succeeds    *)
(* with the text parts of all candidates concatenated in order.  On every  *)
(* failure neither text nor usage statistics are returned.                 *)
C19_StatusAndBody ==
    APIAnswered =>
        LET status == apiAnswer.status
            body == apiAnswer.body
        IN  /\ status \notin 200..299 =>
                  result.err = [msgs |-> <<"API returned status">>,
                                status |-> status, body |-> body.raw]
            /\ (status \in 200..299 /\ body.parses /\ body.error.present) =>
                  result.err = Failure(<<"API error", body.error.message>>)
            /\ (status \in 200..299 /\ body.parses /\ ~body.error.present) =>
                  /\ result.err = NilError
                  /\ result.text = ExtractText(body.candidates)
            /\ result.err # NilError =>
                  (result.text = <<>> /\ result.stats = NoStats)

(* C20: on every successful generation call the usage statistics are built *)
(* from the provider's (prompt, candidates, thoughts) token counts when    *)
(* usage metadata is present, and otherwise from (estimated input tokens,  *)
(* estimate of the generated text, zero thinking tokens); in both branches *)
(* EstimatedInput is the estimate computed from the full prompt before the *)
(* call.                                                                   *)
C20_UsageStats ==
    /\ GenerateCalls # {} => estimatedTokens = ByteLen(promptBuilder) \div 3
    /\ (rpc = "returned" /\ result.err = NilError) =>
          LET usage == apiAnswer.body.usageMetadata
              counts == IF usage.present
                        THEN <<usage.PromptTokenCount, usage.CandidatesTokenCount,
                               usage.ThoughtsTokenCount>>
                        ELSE <<estimatedTokens, ByteLen(result.text) \div 3, 0>>
              priced == CalculateCost(calc, counts[1], counts[2], counts[3])
          IN  /\ result.stats.InputTokens = counts[1]
              /\ result.stats.OutputTokens = counts[2]
              /\ result.stats.ThoughtsTokens = counts[3]
              /\ result.stats.TotalTokens = priced.TotalTokens
              /\ result.stats.TotalCost = priced.TotalCost
              /\ result.stats.IsLongContext = priced.IsLongContext
              /\ result.stats.EstimatedInput = estimatedTokens

\* A successful call whose answer carried usage metadata: the statistics
\* hold the provider's input count and, beside it, the local estimate.
C20_Witness ==
    /\ rpc = "returned" /\ result.err = NilError
    /\ apiAnswer.body.usageMetadata.present
    /\ result.stats.InputTokens = 200001
    /\ result.stats.EstimatedInput > 0
    /\ result.stats.EstimatedInput # result.stats.InputTokens

-----------------------------------------------------------------------------
\* utf8.RuneCountInString: the number of characters of a text.
RECURSIVE CharLen(_)
CharLen(text) ==
    IF text = <<>> THEN 0 ELSE Head(text).chars + CharLen(Tail(text))

(* C21: for every text EstimateTokens returns the number of characters of  *)
(* the text divided by three, rounded down, also for a text with           *)
(* characters encoded in more than one byte; the result is 0 for a text of *)
(* fewer than three characters, and the same for every model.              *)
C21_EstimateTokens ==
    estimatedTokens # NoEstimate =>
        /\ estimatedTokens = CharLen(promptBuilder) \div 3
        /\ CharLen(promptBuilder) < 3 => estimatedTokens = 0

(* C22: a target path that cannot be read is fatal for the whole run: when *)
(* the target does not exist, buildContext returns an error, buildFullPrompt *)
(* and GenerateContent fail, and no outbound HTTP call is issued.          *)
C22_TargetFatal ==
    (~fsys.exists /\ pc = "done") =>
        /\ calls = <<>>
        /\ rpc \in {"context", "returned"}
        /\ rpc = "returned" => result.err # NilError

-----------------------------------------------------------------------------
StartsWith(text, prefix) ==
    Len(text) >= Len(prefix) /\ SubSeq(text, 1, Len(prefix)) = prefix

EndsWith(text, suffix) ==
    /\ Len(text) >= Len(suffix)
    /\ SubSeq(text, Len(text) - Len(suffix) + 1, Len(text)) = suffix

\* The file context as buildFullPrompt appends it.
CodeFiles ==
    Ascii("=== Code Files ===") \o Str("LF", 1, 1)
        \o Str("context", ContextBytes(cfg, context), ContextBytes(cfg, context))

\* Some query of the repository has failed for buildGitContext.
GitQueryFailed ==
    \/ ~IsGitRepository(repository)
    \/ gitContext.err # NilError
    \/ GetChangedFiles(repository).err # NilError
    \/ GetDiffStats(repository).err # NilError
    \/ GetCommitDiff(repository).err # NilError

(* C23: with GitDiff no failure of a query of the repository (the target   *)
(* no repository, no commit to be detected, the commit information, the    *)
(* changed files, the statistics or the diff failing, one of them or all)  *)
(* aborts the run: the prompt buildFullPrompt returns begins with the      *)
(* instruction and ends with the file context, and the run goes on to the  *)
(* generation call.                                                        *)
C23_GitFailuresNotFatal ==
    (cfg.GitDiff /\ rpc \notin {"start", "client"} /\ validateErr \in {Unset, ErrNil}) =>
        /\ StartsWith(promptBuilder, Ascii(cfg.Prompt) \o Str("LF LF", 2, 2))
        /\ (rpc # "context" /\ context # <<>>) => EndsWith(promptBuilder, CodeFiles)
        /\ (rpc = "returned" /\ APIKeyConfigured) =>
               /\ GenerateCalls # {}
               /\ result = ResponseOutcome(calc, estimatedTokens, apiAnswer)

C23_Witness ==
    /\ cfg.GitDiff /\ rpc = "returned"
    /\ repository = AllQueriesFail /\ env = NoEnv
    /\ gitContext.err # NilError /\ changedFiles.isNil
    /\ context # <<>>
    /\ GenerateCalls # {} /\ result.err = NilError

-----------------------------------------------------------------------------
\* The headings of the four pieces of the git context, in their order.
PieceHeadings ==
    Ascii("=== Git Commit Information ===") \o Ascii("=== Changed Files ===")
        \o Ascii("=== Change Statistics ===") \o Ascii("=== Commit Diff ===")

HeadingsOf(text) == SelectSeq(text, LAMBDA p : \E i \in 1..4 : p = PieceHeadings[i])

\* Whether the query of piece i failed, and whether it gave something.
PieceFailed(i) ==
    CASE i = 1 -> GetCommitInfo(repository).err # NilError
      [] i = 2 -> GetChangedFiles(repository).err # NilError
      [] i = 3 -> GetDiffStats(repository).err # NilError
      [] OTHER -> GetCommitDiff(repository).err # NilError

PieceGiven(i) ==
    CASE i = 1 -> GetCommitInfo(repository).err = NilError
      [] i = 2 -> GetChangedFiles(repository).files # <<>>
      [] i = 3 -> GetDiffStats(repository).text # <<>>
      [] OTHER -> GetCommitDiff(repository).text # <<>>

(* C24: BuildGitContext tolerates the failure of any single sub-step by    *)
(* leaving out that piece only: for the commit information, the changed    *)
(* files, the statistics and the diff alike, when the query of that piece  *)
(* fails and the other three succeed, the context returned holds the other *)
(* three pieces, in the order information, changed files, statistics,      *)
(* diff.                                                                   *)
C24_SinglePieceOmitted ==
    gitContext # NoGitContext =>
        \A i \in 1..4 :
            (PieceFailed(i) /\ \A j \in (1..4) \ {i} : PieceGiven(j)) =>
                HeadingsOf(gitContext.text)
                    = SelectSeq(PieceHeadings, LAMBDA p : p # PieceHeadings[i])

\* The first variable of droneEnvVars that is set, if there is one.
FirstSet ==
    IF env["DRONE_COMMIT_SHA"] # <<>> THEN env["DRONE_COMMIT_SHA"]
    ELSE IF env["DRONE_COMMIT"] # <<>> THEN env["DRONE_COMMIT"]
    ELSE IF env["CI_COMMIT_SHA"] # <<>> THEN env["CI_COMMIT_SHA"]
    ELSE IF env["GITHUB_SHA"] # <<>> THEN env["GITHUB_SHA"]
    ELSE env["GITLAB_CI_COMMIT_SHA"]

(* C25: DetectCommitSHA resolves the commit by strict priority: an         *)
(* explicit value that is not empty is returned as it is, whatever the     *)
(* environment and the repository; else the first non-empty variable in    *)
(* the order DRONE_COMMIT_SHA, DRONE_COMMIT, CI_COMMIT_SHA, GITHUB_SHA,    *)
(* GITLAB_CI_COMMIT_SHA; else the commit of HEAD; and the empty string     *)
(* only when all three give nothing.                                       *)
C25_CommitPriority ==
    sha # NoSHA =>
        /\ cfg.GitCommitSHA # <<>> => sha = cfg.GitCommitSHA
        /\ (cfg.GitCommitSHA = <<>> /\ FirstSet # <<>>) => sha = FirstSet
        /\ (cfg.GitCommitSHA = <<>> /\ FirstSet = <<>> /\ ~repository.head.err) =>
               sha = HeadCommit
        /\ sha = <<>> <=>
               (cfg.GitCommitSHA = <<>> /\ FirstSet = <<>> /\ repository.head.err)

C25_Witness ==
    /\ cfg.GitCommitSHA = <<>>
    /\ env["DRONE_COMMIT_SHA"] = <<>> /\ env["DRONE_COMMIT"] = <<>>
    /\ env["CI_COMMIT_SHA"] = <<>>
    /\ env["GITHUB_SHA"] # <<>> /\ env["GITLAB_CI_COMMIT_SHA"] # <<>>
    /\ ~repository.head.err
    /\ sha = EnvValue("GITHUB_SHA")

-----------------------------------------------------------------------------
\* The files of the tree that pass the rules of the walk, whatever the commit
\* has changed: a file of an allowed extension or named Dockerfile, not
\* hidden, of at most 100 KiB for Lstat, beneath no skipped directory.
EligibleFiles ==
    {e \in fsys.entries :
        /\ ~IsDir(e)
        /\ ~HasPrefix(BaseName(e), <<".">>)
        /\ \/ Ext(ToLower(BaseName(e))) \in extensions
           \/ BaseName(e) = <<"D", "o", "c", "k", "e", "r", "f", "i", "l", "e">>
        /\ Info(e).size <= 100 * 1024
        /\ ~BeneathSkippedDir(e)}

CollectedFiles == {AllFiles[j] : j \in 1..Len(AllFiles)}

-----------------------------------------------------------------------------
\* The walk was handed an error for a path: the target is missing, or a
\* directory could not be listed.
WalkAccessFailed ==
    \E k \in 1..Len(visited) :
        \/ visited[k] = Root /\ ~fsys.exists
        \/ visited[k] # Root /\ IsDir(visited[k]) /\ Info(visited[k]).listErr

\* The emission loop has come to a collected file that cannot be read.
ReadFailed ==
    /\ pc \in {"emit", "done"}
    /\ \E j \in 1..Len(AllFiles) : j < idx /\ ReadFile(AllFiles[j]) = ReadFails

\* A failure of the configuration, of the token exchange or of the API.
CallFailed ==
    \/ validateErr \notin {Unset, ErrNil}
    \/ tokenAnswer # NoTokenAnswer /\ TokenOutcome(tokenAnswer).err # NilError
    \/ /\ apiAnswer # NoAPIAnswer
       /\ \/ apiAnswer.err # ""
          \/ apiAnswer.status # 200
          \/ ~apiAnswer.body.parses
          \/ apiAnswer.body.error.present

(* C27: no error is swallowed but the tolerated failures of the git        *)
(* queries: every other failure during a run, a failure to access a path   *)
(* during the walk and a failure to read an eligible file during emission  *)
(* included, is returned to the caller as the error of the run.            *)
C27_NoErrorSwallowed ==
    (rpc = "returned" /\ (WalkAccessFailed \/ ReadFailed \/ CallFailed)) =>
        result.err # NilError

(* C28: in service-account mode every generation call carries a bearer     *)
(* token that is not empty and was obtained from the token exchange: when  *)
(* the token endpoint answers with a success status and a body that        *)
(* parses, either the body gives a non-empty access token, which is sent   *)
(* as the bearer credential, or the run fails before the generation call.  *)
C28_BearerNotEmpty ==
    ServiceAccountConfigured =>
        /\ \A i \in GenerateCalls :
              /\ tokenAnswer.err = "" /\ tokenAnswer.body.parses
              /\ tokenAnswer.body.access_token # ""
              /\ calls[i].authorization = "Bearer " \o tokenAnswer.body.access_token
        /\ (/\ tokenAnswer.err = "" /\ tokenAnswer.status = 200
            /\ tokenAnswer.body.parses /\ tokenAnswer.body.access_token = ""
            /\ rpc = "returned") =>
               (result.err # NilError /\ GenerateCalls = {})

====
